---- MODULE Spec2Model ----
(***************************************************************************)
(* Model of the AssetsBridge add-on: the skeleton retargeting engine       *)
(* (src/operators/skeleton_retarget.py) and the shape-key transfer         *)
(* (src/operators/shape_keys.py).                                          *)
(*                                                                         *)
(* Bone names are Python strings.  They are modelled as sequences of       *)
(* one-character strings, so that lower(), startswith(), "in" and the      *)
(* edit distance are computed character by character as the code does.     *)
(* Confidence scores and weights are Python floats; they are modelled as   *)
(* exact fractions over a fixed denominator (Scale for scores, 40 for      *)
(* vertex weights).                                                        *)
(***************************************************************************)
EXTENDS Integers, Sequences, FiniteSets, TLC

(***************************************************************************)
(* Python string primitives.                                               *)
(***************************************************************************)
UpperChars == <<"A","B","C","D","E","F","G","H","I","J","K","L","M",
                "N","O","P","Q","R","S","T","U","V","W","X","Y","Z">>

LowerChars == <<"a","b","c","d","e","f","g","h","i","j","k","l","m",
                "n","o","p","q","r","s","t","u","v","w","x","y","z">>

\* str.lower() on one character
LowerChar(c) ==
  IF \E i \in 1..Len(UpperChars) : UpperChars[i] = c
    THEN LowerChars[CHOOSE i \in 1..Len(UpperChars) : UpperChars[i] = c]
    ELSE c

\* str.lower()
RECURSIVE Lower(_)
Lower(s) == IF s = <<>> THEN <<>> ELSE <<LowerChar(Head(s))>> \o Lower(Tail(s))

\* str.strip(): drops leading and trailing blanks
RECURSIVE LStrip(_)
LStrip(s) == IF s /= <<>> /\ Head(s) = " " THEN LStrip(Tail(s)) ELSE s

RECURSIVE RStrip(_)
RStrip(s) ==
  IF s /= <<>> /\ s[Len(s)] = " " THEN RStrip(SubSeq(s, 1, Len(s) - 1)) ELSE s

Strip(s) == RStrip(LStrip(s))

\* str.startswith(p)
StartsWith(s, p) == Len(p) <= Len(s) /\ SubSeq(s, 1, Len(p)) = p

\* str.endswith(p)
EndsWith(s, p) ==
  Len(p) <= Len(s) /\ SubSeq(s, Len(s) - Len(p) + 1, Len(s)) = p

\* p in s  (substring test)
Contains(s, p) ==
  \E i \in 1..(Len(s) - Len(p) + 1) : SubSeq(s, i, i + Len(p) - 1) = p

\* x in list
InList(x, list) == \E i \in 1..Len(list) : list[i] = x

Min2(a, b) == IF a <= b THEN a ELSE b

Max2(a, b) == IF a >= b THEN a ELSE b

(***************************************************************************)
(* levenshtein_distance: the row-by-row dynamic program of the source.     *)
(*   previous_row = range(len(s2) + 1)                                     *)
(*   current_row  = [i + 1] then one cell per character of s2              *)
(***************************************************************************)
RECURSIVE LevRow(_, _, _, _, _)
LevRow(previous_row, current_row, c1, s2, j) ==
  IF j > Len(s2) THEN current_row
  ELSE LET insertions    == previous_row[j + 1] + 1
           deletions     == current_row[j] + 1
           substitutions == previous_row[j] + (IF c1 /= s2[j] THEN 1 ELSE 0)
       IN LevRow(previous_row,
                 Append(current_row,
                        Min2(insertions, Min2(deletions, substitutions))),
                 c1, s2, j + 1)

\* the outer loop: one row per character of s1 (every row has len(s2) + 1
\* cells; the row is computed before the next character is taken)
RECURSIVE LevRows(_, _, _, _)
LevRows(previous_row, s1, s2, i) ==
  IF i > Len(s1) \/ Len(previous_row) /= Len(s2) + 1 THEN previous_row
  ELSE LevRows(LevRow(previous_row, <<i>>, s1[i], s2, 1), s1, s2, i + 1)

\* list(range(n))
RECURSIVE Range(_)
Range(n) == IF n = 0 THEN <<>> ELSE Append(Range(n - 1), n - 1)

\* the body of levenshtein_distance once len(s1) >= len(s2)
LevCore(s1, s2) ==
  IF Len(s2) = 0 THEN Len(s1)
  ELSE LevRows(Range(Len(s2) + 1), s1, s2, 1)[Len(s2) + 1]

\* if len(s1) < len(s2): return levenshtein_distance(s2, s1)
levenshtein_distance(s1, s2) ==
  IF Len(s1) < Len(s2) THEN LevCore(s2, s1) ELSE LevCore(s1, s2)

(***************************************************************************)
(* normalize_bone_name                                                     *)
(***************************************************************************)
NormPrefixes ==
  << <<"d","e","f","_">>, <<"d","e","f","-">>, <<"d","r","v","_">>,
     <<"d","r","v","-">>, <<"c","t","r","l","_">>, <<"c","t","r","l","-">>,
     <<"i","k","_">>, <<"i","k","-">>, <<"f","k","_">>, <<"f","k","-">>,
     <<"m","c","h","_">>, <<"m","c","h","-">> >>

NormSuffixes ==
  << <<"_","d","e","f">>, <<"-","d","e","f">>, <<"_","d","r","v">>,
     <<"-","d","r","v">>, <<"_","c","t","r","l">>, <<"-","c","t","r","l">> >>

\* for prefix in prefixes: if name.startswith(prefix): name = name[len(prefix):]
RECURSIVE StripPrefixes(_, _)
StripPrefixes(name, k) ==
  IF k > Len(NormPrefixes) THEN name
  ELSE IF StartsWith(name, NormPrefixes[k])
         THEN StripPrefixes(SubSeq(name, Len(NormPrefixes[k]) + 1, Len(name)),
                            k + 1)
         ELSE StripPrefixes(name, k + 1)

\* for suffix in suffixes: if name.endswith(suffix): name = name[:-len(suffix)]
RECURSIVE StripSuffixes(_, _)
StripSuffixes(name, k) ==
  IF k > Len(NormSuffixes) THEN name
  ELSE IF EndsWith(name, NormSuffixes[k])
         THEN StripSuffixes(SubSeq(name, 1, Len(name) - Len(NormSuffixes[k])),
                            k + 1)
         ELSE StripSuffixes(name, k + 1)

normalize_bone_name(name) ==
  StripSuffixes(StripPrefixes(Strip(Lower(name)), 1), 1)

(***************************************************************************)
(* get_side_from_name                                                      *)
(***************************************************************************)
left_patterns ==
  << <<"_","l">>, <<".","l">>, <<"-","l">>, <<"l","e","f","t">>,
     <<"_","l","e","f","t">>, <<".","l","e","f","t">>, <<"-","l","e","f","t">>,
     <<"l","_">>, <<"l",".">>, <<"l","-">> >>

right_patterns ==
  << <<"_","r">>, <<".","r">>, <<"-","r">>, <<"r","i","g","h","t">>,
     <<"_","r","i","g","h","t">>, <<".","r","i","g","h","t">>,
     <<"-","r","i","g","h","t">>, <<"r","_">>, <<"r",".">>, <<"r","-">> >>

\* pattern in name_lower or name_lower.endswith(pattern) or
\* name_lower.startswith(pattern), for some pattern of the list
AnyPattern(name_lower, patterns) ==
  \E k \in 1..Len(patterns) :
     \/ Contains(name_lower, patterns[k])
     \/ EndsWith(name_lower, patterns[k])
     \/ StartsWith(name_lower, patterns[k])

get_side_from_name(name) ==
  LET name_lower == Lower(name)
  IN IF AnyPattern(name_lower, left_patterns) THEN "left"
     ELSE IF AnyPattern(name_lower, right_patterns) THEN "right"
     ELSE "center"

UE5_BONE_ALIASES ==
  << [canonical |-> <<"r","o","o","t">>,
      aliases |-> <<<<"r","o","o","t">>, <<"m","a","i","n">>, <<"o","r","i","g","i","n">>, <<"a","r","m","a","t","u","r","e">>>>],
     [canonical |-> <<"p","e","l","v","i","s">>,
      aliases |-> <<<<"p","e","l","v","i","s">>, <<"h","i","p","s">>, <<"h","i","p">>, <<"c","o","g">>, <<"c","e","n","t","e","r","_","o","f","_","g","r","a","v","i","t","y">>>>],
     [canonical |-> <<"s","p","i","n","e","_","0","1">>,
      aliases |-> <<<<"s","p","i","n","e">>, <<"s","p","i","n","e","1">>, <<"s","p","i","n","e","_","0","1">>, <<"s","p","i","n","e",".","0","0","1">>, <<"a","b","d","o","m","e","n">>>>],
     [canonical |-> <<"s","p","i","n","e","_","0","2">>,
      aliases |-> <<<<"s","p","i","n","e","2">>, <<"s","p","i","n","e","_","0","2">>, <<"s","p","i","n","e",".","0","0","2">>, <<"c","h","e","s","t","_","l","o","w","e","r">>>>],
     [canonical |-> <<"s","p","i","n","e","_","0","3">>,
      aliases |-> <<<<"s","p","i","n","e","3">>, <<"s","p","i","n","e","_","0","3">>, <<"s","p","i","n","e",".","0","0","3">>, <<"c","h","e","s","t">>, <<"c","h","e","s","t","_","u","p","p","e","r">>>>],
     [canonical |-> <<"s","p","i","n","e","_","0","4">>,
      aliases |-> <<<<"s","p","i","n","e","4">>, <<"s","p","i","n","e","_","0","4">>, <<"s","p","i","n","e",".","0","0","4">>>>],
     [canonical |-> <<"s","p","i","n","e","_","0","5">>,
      aliases |-> <<<<"s","p","i","n","e","5">>, <<"s","p","i","n","e","_","0","5">>, <<"s","p","i","n","e",".","0","0","5">>>>],
     [canonical |-> <<"n","e","c","k","_","0","1">>,
      aliases |-> <<<<"n","e","c","k">>, <<"n","e","c","k","1">>, <<"n","e","c","k","_","0","1">>, <<"n","e","c","k",".","0","0","1">>>>],
     [canonical |-> <<"n","e","c","k","_","0","2">>,
      aliases |-> <<<<"n","e","c","k","2">>, <<"n","e","c","k","_","0","2">>, <<"n","e","c","k",".","0","0","2">>>>],
     [canonical |-> <<"h","e","a","d">>,
      aliases |-> <<<<"h","e","a","d">>, <<"s","k","u","l","l">>>>],
     [canonical |-> <<"c","l","a","v","i","c","l","e","_","l">>,
      aliases |-> <<<<"c","l","a","v","i","c","l","e","_","l">>, <<"c","o","l","l","a","r","_","l">>, <<"s","h","o","u","l","d","e","r","_","l">>, <<"l","e","f","t","s","h","o","u","l","d","e","r">>, <<"l","_","c","l","a","v","i","c","l","e">>, <<"c","l","a","v","i","c","l","e",".","l">>>>],
     [canonical |-> <<"c","l","a","v","i","c","l","e","_","r">>,
      aliases |-> <<<<"c","l","a","v","i","c","l","e","_","r">>, <<"c","o","l","l","a","r","_","r">>, <<"s","h","o","u","l","d","e","r","_","r">>, <<"r","i","g","h","t","s","h","o","u","l","d","e","r">>, <<"r","_","c","l","a","v","i","c","l","e">>, <<"c","l","a","v","i","c","l","e",".","r">>>>],
     [canonical |-> <<"u","p","p","e","r","a","r","m","_","l">>,
      aliases |-> <<<<"u","p","p","e","r","a","r","m","_","l">>, <<"a","r","m","_","l">>, <<"l","e","f","t","a","r","m">>, <<"l","_","u","p","p","e","r","a","r","m">>, <<"u","p","p","e","r","_","a","r","m","_","l">>, <<"u","p","p","e","r","a","r","m",".","l">>>>],
     [canonical |-> <<"u","p","p","e","r","a","r","m","_","r">>,
      aliases |-> <<<<"u","p","p","e","r","a","r","m","_","r">>, <<"a","r","m","_","r">>, <<"r","i","g","h","t","a","r","m">>, <<"r","_","u","p","p","e","r","a","r","m">>, <<"u","p","p","e","r","_","a","r","m","_","r">>, <<"u","p","p","e","r","a","r","m",".","r">>>>],
     [canonical |-> <<"l","o","w","e","r","a","r","m","_","l">>,
      aliases |-> <<<<"l","o","w","e","r","a","r","m","_","l">>, <<"f","o","r","e","a","r","m","_","l">>, <<"l","e","f","t","f","o","r","e","a","r","m">>, <<"l","_","l","o","w","e","r","a","r","m">>, <<"l","o","w","e","r","_","a","r","m","_","l">>, <<"l","o","w","e","r","a","r","m",".","l">>>>],
     [canonical |-> <<"l","o","w","e","r","a","r","m","_","r">>,
      aliases |-> <<<<"l","o","w","e","r","a","r","m","_","r">>, <<"f","o","r","e","a","r","m","_","r">>, <<"r","i","g","h","t","f","o","r","e","a","r","m">>, <<"r","_","l","o","w","e","r","a","r","m">>, <<"l","o","w","e","r","_","a","r","m","_","r">>, <<"l","o","w","e","r","a","r","m",".","r">>>>],
     [canonical |-> <<"h","a","n","d","_","l">>,
      aliases |-> <<<<"h","a","n","d","_","l">>, <<"l","e","f","t","h","a","n","d">>, <<"l","_","h","a","n","d">>, <<"w","r","i","s","t","_","l">>, <<"h","a","n","d",".","l">>>>],
     [canonical |-> <<"h","a","n","d","_","r">>,
      aliases |-> <<<<"h","a","n","d","_","r">>, <<"r","i","g","h","t","h","a","n","d">>, <<"r","_","h","a","n","d">>, <<"w","r","i","s","t","_","r">>, <<"h","a","n","d",".","r">>>>],
     [canonical |-> <<"t","h","i","g","h","_","l">>,
      aliases |-> <<<<"t","h","i","g","h","_","l">>, <<"u","p","p","e","r","l","e","g","_","l">>, <<"l","e","f","t","u","p","l","e","g">>, <<"l","_","t","h","i","g","h">>, <<"u","p","p","e","r","_","l","e","g","_","l">>, <<"t","h","i","g","h",".","l">>>>],
     [canonical |-> <<"t","h","i","g","h","_","r">>,
      aliases |-> <<<<"t","h","i","g","h","_","r">>, <<"u","p","p","e","r","l","e","g","_","r">>, <<"r","i","g","h","t","u","p","l","e","g">>, <<"r","_","t","h","i","g","h">>, <<"u","p","p","e","r","_","l","e","g","_","r">>, <<"t","h","i","g","h",".","r">>>>],
     [canonical |-> <<"c","a","l","f","_","l">>,
      aliases |-> <<<<"c","a","l","f","_","l">>, <<"l","o","w","e","r","l","e","g","_","l">>, <<"s","h","i","n","_","l">>, <<"l","e","f","t","l","e","g">>, <<"l","_","c","a","l","f">>, <<"l","o","w","e","r","_","l","e","g","_","l">>, <<"c","a","l","f",".","l">>>>],
     [canonical |-> <<"c","a","l","f","_","r">>,
      aliases |-> <<<<"c","a","l","f","_","r">>, <<"l","o","w","e","r","l","e","g","_","r">>, <<"s","h","i","n","_","r">>, <<"r","i","g","h","t","l","e","g">>, <<"r","_","c","a","l","f">>, <<"l","o","w","e","r","_","l","e","g","_","r">>, <<"c","a","l","f",".","r">>>>],
     [canonical |-> <<"f","o","o","t","_","l">>,
      aliases |-> <<<<"f","o","o","t","_","l">>, <<"l","e","f","t","f","o","o","t">>, <<"l","_","f","o","o","t">>, <<"a","n","k","l","e","_","l">>, <<"f","o","o","t",".","l">>>>],
     [canonical |-> <<"f","o","o","t","_","r">>,
      aliases |-> <<<<"f","o","o","t","_","r">>, <<"r","i","g","h","t","f","o","o","t">>, <<"r","_","f","o","o","t">>, <<"a","n","k","l","e","_","r">>, <<"f","o","o","t",".","r">>>>],
     [canonical |-> <<"b","a","l","l","_","l">>,
      aliases |-> <<<<"b","a","l","l","_","l">>, <<"t","o","e","_","l">>, <<"l","e","f","t","t","o","e","b","a","s","e">>, <<"l","_","b","a","l","l">>, <<"t","o","e","s","_","l">>, <<"b","a","l","l",".","l">>>>],
     [canonical |-> <<"b","a","l","l","_","r">>,
      aliases |-> <<<<"b","a","l","l","_","r">>, <<"t","o","e","_","r">>, <<"r","i","g","h","t","t","o","e","b","a","s","e">>, <<"r","_","b","a","l","l">>, <<"t","o","e","s","_","r">>, <<"b","a","l","l",".","r">>>>] >>

FINGER_PATTERNS ==
  << [finger |-> <<"t","h","u","m","b">>,
      patterns |-> <<<<"t","h","u","m","b">>, <<"f","i","n","g","e","r","0">>, <<"f","i","n","g","e","r","_","0">>>>],
     [finger |-> <<"i","n","d","e","x">>,
      patterns |-> <<<<"i","n","d","e","x">>, <<"f","i","n","g","e","r","1">>, <<"f","i","n","g","e","r","_","1">>, <<"p","o","i","n","t","e","r">>>>],
     [finger |-> <<"m","i","d","d","l","e">>,
      patterns |-> <<<<"m","i","d","d","l","e">>, <<"f","i","n","g","e","r","2">>, <<"f","i","n","g","e","r","_","2">>, <<"m","i","d">>>>],
     [finger |-> <<"r","i","n","g">>,
      patterns |-> <<<<"r","i","n","g">>, <<"f","i","n","g","e","r","3">>, <<"f","i","n","g","e","r","_","3">>>>],
     [finger |-> <<"p","i","n","k","y">>,
      patterns |-> <<<<"p","i","n","k","y">>, <<"f","i","n","g","e","r","4">>, <<"f","i","n","g","e","r","_","4">>, <<"l","i","t","t","l","e">>, <<"s","m","a","l","l">>>>] >>

(***************************************************************************)
(* Scores.  A Python float score x is the integer x * Scale; Scale is a    *)
(* multiple of 100 and of every possible max_len, so that                  *)
(* 1.0 - distance / max_len and the 0.15 / 0.2 / 0.3 steps are exact.      *)
(***************************************************************************)
\* no bone name of the model is longer than this
MaxNameLen == 12

RECURSIVE Gcd(_, _)
Gcd(a, b) == IF b = 0 THEN a ELSE Gcd(b, a % b)

RECURSIVE LcmUpTo(_)
LcmUpTo(n) == IF n <= 1 THEN 1 ELSE LET l == LcmUpTo(n - 1) IN (l * n) \div Gcd(l, n)

Scale == 100 * LcmUpTo(MaxNameLen)

\* the float p / 100
Pct(p) == p * (Scale \div 100)

\* Python's None where a bone name is expected (no bone name has this form)
NoneName == <<"None">>

(***************************************************************************)
(* compute_match_confidence: returns <<confidence, reason>>                *)
(***************************************************************************)
key_parts ==
  << <<"s","p","i","n","e">>, <<"a","r","m">>, <<"l","e","g">>,
     <<"h","a","n","d">>, <<"f","o","o","t">>, <<"h","e","a","d">>,
     <<"n","e","c","k">>, <<"t","h","i","g","h">>, <<"c","a","l","f">>,
     <<"s","h","o","u","l","d","e","r">> >>

\* some alias entry holds ue5_lower and target_norm
AliasPairMatch(ue5_lower, target_norm) ==
  \E k \in 1..Len(UE5_BONE_ALIASES) :
     LET ue5_canonical == UE5_BONE_ALIASES[k].canonical
         aliases       == UE5_BONE_ALIASES[k].aliases
     IN /\ (ue5_lower = ue5_canonical \/ InList(ue5_lower, aliases))
        /\ (InList(target_norm, aliases) \/ target_norm = ue5_canonical)

\* for part in key_parts: if part in both: similarity = min(1.0, sim + 0.15); break
\* KeyPartBoost without the +0.15 for a shared key part
KeyPartBoost_NoBoost(similarity, ue5_norm, target_norm) == similarity

KeyPartBoost(similarity, ue5_norm, target_norm) ==
  IF \E k \in 1..Len(key_parts) :
        Contains(ue5_norm, key_parts[k]) /\ Contains(target_norm, key_parts[k])
    THEN Min2(Scale, similarity + Pct(15))
    ELSE similarity

\* any(p in name for p in patterns) or finger in name
HasFinger(name, k) ==
  \/ \E p \in 1..Len(FINGER_PATTERNS[k].patterns) :
        Contains(name, FINGER_PATTERNS[k].patterns[p])
  \/ Contains(name, FINGER_PATTERNS[k].finger)

\* the loop over FINGER_PATTERNS.items(): +0.2 and break when both names hold
\* finger k, -0.3 and on to the next finger when exactly one does
RECURSIVE FingerLoop(_, _, _, _)
FingerLoop(similarity, ue5_norm, target_norm, k) ==
  IF k > Len(FINGER_PATTERNS) THEN similarity
  ELSE LET ue5_has_finger    == HasFinger(ue5_norm, k)
           target_has_finger == HasFinger(target_norm, k)
       IN IF ue5_has_finger /\ target_has_finger
            THEN Min2(Scale, similarity + Pct(20))
          ELSE IF ue5_has_finger /= target_has_finger
            THEN FingerLoop(Max2(0, similarity - Pct(30)),
                            ue5_norm, target_norm, k + 1)
          ELSE FingerLoop(similarity, ue5_norm, target_norm, k + 1)

FuzzyReason(similarity) ==
  IF similarity >= Pct(70) THEN "fuzzy_high"
  ELSE IF similarity >= Pct(50) THEN "fuzzy_medium"
  ELSE "fuzzy_low"

compute_match_confidence(ue5_bone, target_bone) ==
  LET ue5_norm    == normalize_bone_name(ue5_bone)
      target_norm == normalize_bone_name(target_bone)
      ue5_lower   == Lower(ue5_bone)
      ue5_side    == get_side_from_name(ue5_bone)
      target_side == get_side_from_name(target_bone)
      max_len     == Max2(Len(ue5_norm), Len(target_norm))
      distance    == levenshtein_distance(ue5_norm, target_norm)
      similarity  == Scale - (distance * Scale) \div max_len
      final       == FingerLoop(KeyPartBoost(similarity, ue5_norm, target_norm),
                                ue5_norm, target_norm, 1)
  IN IF ue5_norm = target_norm THEN <<Pct(100), "exact_match">>
     ELSE IF AliasPairMatch(ue5_lower, target_norm)
       THEN <<Pct(95), "alias_match">>
     ELSE IF ue5_side /= target_side /\ ue5_side /= "center"
             /\ target_side /= "center"
       THEN <<0, "side_mismatch">>
     ELSE IF max_len = 0 THEN <<0, "empty_names">>
     ELSE <<final, FuzzyReason(final)>>

(***************************************************************************)
(* build_bone_mapping.  The builder's locals are the record                *)
(*   [used_targets, mapping_results]                                       *)
(* mapping_results is the dict ue5_bone -> mapping entry.                  *)
(***************************************************************************)
Entry(ue5_bone, target_bone, confidence, category, reason, enabled) ==
  [ue5_bone |-> ue5_bone, target_bone |-> target_bone,
   confidence |-> confidence, category |-> category,
   reason |-> reason, enabled |-> enabled]

\* a dict comprehension {key(bone): bone for bone in target_bones}[k]:
\* the last bone of the list with that key wins
LastIndex(S) == CHOOSE i \in S : \A j \in S : j <= i

\* target_bones_lower[k]
TargetByLower(target_bones, k) ==
  target_bones[LastIndex({i \in 1..Len(target_bones) :
                             Lower(target_bones[i]) = k})]

\* k in target_bones_lower
InTargetsLower(target_bones, k) ==
  \E i \in 1..Len(target_bones) : Lower(target_bones[i]) = k

\* target_bones_normalized[k]
TargetByNorm(target_bones, k) ==
  target_bones[LastIndex({i \in 1..Len(target_bones) :
                             normalize_bone_name(target_bones[i]) = k})]

\* k in target_bones_normalized
InTargetsNorm(target_bones, k) ==
  \E i \in 1..Len(target_bones) : normalize_bone_name(target_bones[i]) = k

BuilderStart == [used_targets |-> {}, mapping_results |-> <<>>]

\* mapping_results[ue5_bone] = entry; used_targets.add(entry.target_bone)
\* Claim that records the entry but leaves the target unclaimed
Claim_TargetLeftFree(st, entry) ==
  [used_targets    |-> st.used_targets,
   mapping_results |-> (entry.ue5_bone :> entry) @@ st.mapping_results]

Claim(st, entry) ==
  [used_targets    |-> st.used_targets \cup {entry.target_bone},
   mapping_results |-> (entry.ue5_bone :> entry) @@ st.mapping_results]

\* PASS 1: exact case-insensitive matches
RECURSIVE Pass1(_, _, _, _)
Pass1(ue5_bones, target_bones, st, i) ==
  IF i > Len(ue5_bones) THEN st
  ELSE LET ue5_bone  == ue5_bones[i]
           ue5_lower == Lower(ue5_bone)
       IN IF /\ InTargetsLower(target_bones, ue5_lower)
             /\ TargetByLower(target_bones, ue5_lower) \notin st.used_targets
            THEN Pass1(ue5_bones, target_bones,
                       Claim(st, Entry(ue5_bone,
                                       TargetByLower(target_bones, ue5_lower),
                                       Pct(100), "HIGH", "exact_match", TRUE)),
                       i + 1)
            ELSE Pass1(ue5_bones, target_bones, st, i + 1)

\* PASS 2: normalized exact matches
RECURSIVE Pass2(_, _, _, _)
Pass2(ue5_bones, target_bones, st, i) ==
  IF i > Len(ue5_bones) THEN st
  ELSE LET ue5_bone == ue5_bones[i]
           ue5_norm == normalize_bone_name(ue5_bone)
       IN IF /\ ue5_bone \notin DOMAIN st.mapping_results
             /\ InTargetsNorm(target_bones, ue5_norm)
             /\ TargetByNorm(target_bones, ue5_norm) \notin st.used_targets
            THEN Pass2(ue5_bones, target_bones,
                       Claim(st, Entry(ue5_bone,
                                       TargetByNorm(target_bones, ue5_norm),
                                       Pct(95), "HIGH", "normalized_match", TRUE)),
                       i + 1)
            ELSE Pass2(ue5_bones, target_bones, st, i + 1)

\* the targets an alias entry k offers to ue5_lower: indexes of the target
\* bones not yet used whose lower-case name is the canonical name or an alias
AliasCandidates(target_bones, used_targets, ue5_lower, k) ==
  LET ue5_canonical == UE5_BONE_ALIASES[k].canonical
      aliases       == UE5_BONE_ALIASES[k].aliases
  IN IF ue5_lower = ue5_canonical \/ InList(ue5_lower, aliases)
       THEN {t \in 1..Len(target_bones) :
               /\ target_bones[t] \notin used_targets
               /\ \/ Lower(target_bones[t]) = ue5_canonical
                  \/ InList(Lower(target_bones[t]), aliases)}
       ELSE {}

FirstIndex(S) == CHOOSE i \in S : \A j \in S : i <= j

\* PASS 3: alias table matches; the first alias entry (in table order) that
\* offers a target wins, with its first target in target order
RECURSIVE Pass3(_, _, _, _)
Pass3(ue5_bones, target_bones, st, i) ==
  IF i > Len(ue5_bones) THEN st
  ELSE LET ue5_bone  == ue5_bones[i]
           ue5_lower == Lower(ue5_bone)
           hits == {k \in 1..Len(UE5_BONE_ALIASES) :
                      AliasCandidates(target_bones, st.used_targets,
                                      ue5_lower, k) /= {}}
       IN IF ue5_bone \notin DOMAIN st.mapping_results /\ hits /= {}
            THEN Pass3(ue5_bones, target_bones,
                       Claim(st, Entry(ue5_bone,
                                       target_bones[FirstIndex(
                                          AliasCandidates(target_bones,
                                             st.used_targets, ue5_lower,
                                             FirstIndex(hits)))],
                                       Pct(90), "HIGH", "alias_match", TRUE)),
                       i + 1)
            ELSE Pass3(ue5_bones, target_bones, st, i + 1)

\* BestMatch where a later target of equal confidence replaces the best
RECURSIVE BestMatch_LastWins(_, _, _, _, _)
BestMatch_LastWins(ue5_bone, remaining_targets, used_targets, best, j) ==
  IF j > Len(remaining_targets) THEN best
  ELSE LET target_bone == remaining_targets[j]
           cr == compute_match_confidence(ue5_bone, target_bone)
       IN IF target_bone \notin used_targets /\ cr[1] >= best[2]
            THEN BestMatch_LastWins(ue5_bone, remaining_targets, used_targets,
                                    <<target_bone, cr[1], cr[2]>>, j + 1)
            ELSE BestMatch_LastWins(ue5_bone, remaining_targets, used_targets,
                                    best, j + 1)

\* the inner loop of pass 4 over remaining_targets:
\* best = <<best_match, best_confidence, best_reason>>
RECURSIVE BestMatch(_, _, _, _, _)
BestMatch(ue5_bone, remaining_targets, used_targets, best, j) ==
  IF j > Len(remaining_targets) THEN best
  ELSE LET target_bone == remaining_targets[j]
           cr == compute_match_confidence(ue5_bone, target_bone)
       IN IF target_bone \notin used_targets /\ cr[1] > best[2]
            THEN BestMatch(ue5_bone, remaining_targets, used_targets,
                           <<target_bone, cr[1], cr[2]>>, j + 1)
            ELSE BestMatch(ue5_bone, remaining_targets, used_targets,
                           best, j + 1)

\* Category without the LOW band
Category_NoLow(best_match, best_confidence) ==
  IF best_confidence >= Pct(85) THEN "HIGH"
  ELSE IF best_confidence >= Pct(50) THEN "MEDIUM"
  ELSE "NONE"

Category(best_match, best_confidence) ==
  IF best_confidence >= Pct(85) THEN "HIGH"
  ELSE IF best_confidence >= Pct(50) THEN "MEDIUM"
  ELSE IF best_match /= NoneName /\ best_confidence >= Pct(30) THEN "LOW"
  ELSE "NONE"

\* the entry pass 4 records for ue5_bone, given its best candidate
FuzzyEntry(ue5_bone, best) ==
  Entry(ue5_bone,
        IF best[2] >= Pct(30) THEN best[1] ELSE <<>>,
        best[2], Category(best[1], best[2]), best[3], best[2] >= Pct(50))

\* PASS 4: fuzzy matching for the remaining bones
RECURSIVE Pass4Loop(_, _, _, _)
Pass4Loop(remaining_ue5, remaining_targets, st, i) ==
  IF i > Len(remaining_ue5) THEN st
  ELSE LET ue5_bone == remaining_ue5[i]
           best == BestMatch(ue5_bone, remaining_targets, st.used_targets,
                             <<NoneName, 0, "no_match">>, 1)
           entry == FuzzyEntry(ue5_bone, best)
       IN Pass4Loop(remaining_ue5, remaining_targets,
                    [used_targets |->
                        IF best[1] /= NoneName /\ best[1] /= <<>>
                           /\ best[2] >= Pct(30)
                          THEN st.used_targets \cup {best[1]}
                          ELSE st.used_targets,
                     mapping_results |-> (ue5_bone :> entry) @@ st.mapping_results],
                    i + 1)

Pass4(ue5_bones, target_bones, st) ==
  LET InResults(b) == b \in DOMAIN st.mapping_results
      NotInResults(b) == ~InResults(b)
      NotUsed(b) == b \notin st.used_targets
  IN Pass4Loop(SelectSeq(ue5_bones, NotInResults),
               SelectSeq(target_bones, NotUsed), st, 1)

\* the builder's locals after all four passes
BuilderRun(ue5_bones, target_bones) ==
  Pass4(ue5_bones, target_bones,
        Pass3(ue5_bones, target_bones,
              Pass2(ue5_bones, target_bones,
                    Pass1(ue5_bones, target_bones, BuilderStart, 1), 1), 1))

\* return [mapping_results[bone] for bone in ue5_bones]
build_bone_mapping(ue5_bones, target_bones) ==
  LET st == BuilderRun(ue5_bones, target_bones)
  IN [i \in 1..Len(ue5_bones) |-> st.mapping_results[ue5_bones[i]]]

(***************************************************************************)
(* Bone names used by the specifications below.                            *)
(***************************************************************************)
nm_Hand        == <<"H","a","n","d">>
nm_hand        == <<"h","a","n","d">>
nm_def_hand    == <<"d","e","f","_","h","a","n","d">>
nm_hand_l      == <<"h","a","n","d","_","l">>
nm_hand_r      == <<"h","a","n","d","_","r">>
nm_Hand_L      == <<"H","a","n","d","_","L">>
nm_Hand_R      == <<"H","a","n","d","_","R">>
nm_lefthand    == <<"l","e","f","t","h","a","n","d">>
nm_head        == <<"h","e","a","d">>
nm_root        == <<"r","o","o","t">>
nm_ball_r      == <<"b","a","l","l","_","r">>
nm_toe_r       == <<"t","o","e","_","r">>
nm_toe_l       == <<"t","o","e","_","l">>
nm_ctrl_hand_r == <<"c","t","r","l","_","h","a","n","d","_","r">>
nm_thumb_l     == <<"t","h","u","m","b","_","l">>
nm_thumb_01_l  == <<"t","h","u","m","b","_","0","1","_","l">>
nm_index_l     == <<"i","n","d","e","x","_","l">>
nm_finger0_l   == <<"f","i","n","g","e","r","0","_","l">>
nm_finger1_l   == <<"f","i","n","g","e","r","1","_","l">>
nm_RightHand   == <<"R","i","g","h","t","H","a","n","d">>
nm_Hips        == <<"H","i","p","s">>
nm_Spine       == <<"S","p","i","n","e">>
nm_Spine1      == <<"S","p","i","n","e","1">>
nm_LeftArm     == <<"L","e","f","t","A","r","m">>
nm_pelvis      == <<"p","e","l","v","i","s">>
nm_spine_01    == <<"s","p","i","n","e","_","0","1">>
nm_spine_02    == <<"s","p","i","n","e","_","0","2">>
nm_upperarm_l  == <<"u","p","p","e","r","a","r","m","_","l">>

\* the sequences of distinct elements of pool, of length at most n
Arrangements(pool, n) ==
  {s \in UNION {[1..k -> pool] : k \in 0..n} :
     \A i, j \in DOMAIN s : i /= j => s[i] /= s[j]}

(***************************************************************************)
(* The host scene (bpy.data) as far as the retargeting commands read and   *)
(* write it.  A scene is the record                                        *)
(*   objects               the live objects (bpy.data.objects)             *)
(*   parent                obj.parent, NoObject for None                   *)
(*   modifiers             obj.modifiers: sequence of [type, object]       *)
(*   users_collection      obj.users_collection                            *)
(*   vertex_groups         obj.vertex_groups: sequence of [id, name, w];   *)
(*                         w maps the vertices the group holds to weights  *)
(*   bone_geom             armature -> bone name -> [head, tail, roll]     *)
(*   matrix_basis, matrix_parent_inverse, obj_scale                        *)
(* Transforms are the translations and uniform scales of one axis:         *)
(* matrix_world = parent world + parent inverse + basis, and a bone        *)
(* coordinate c stands for the local position c / 2 (so that dividing by   *)
(* an object scale of 2 is exact).  A vertex weight w stands for w / 40.   *)
(***************************************************************************)
NoObject == "None"

\* Body applied to value, with value computed once
With(value, Body(_)) == CHOOSE y \in {Body(x) : x \in {z \in {value} : z = z}} : TRUE

Armatures == {"SK_A", "SK_B"}

Meshes == {"M1", "M2"}

AllObjects == Armatures \cup Meshes \cup {"Root"}

\* iteration order of bpy.data.objects (sorted by name)
ObjectOrder == <<"M1", "M2", "Root", "SK_A", "SK_B">>

ObjType(o) ==
  IF o \in Armatures THEN "ARMATURE" ELSE IF o \in Meshes THEN "MESH" ELSE "EMPTY"

\* armature.data.bones, in order
BonesOf(arm) ==
  IF arm = "SK_A" THEN <<nm_root, nm_hand_r>> ELSE <<nm_Hand_R, nm_Hand_L>>

ArmatureMod(o) == [type |-> "ARMATURE", object |-> o]

RECURSIVE matrix_world(_, _)
matrix_world(sc, o) ==
  IF sc.parent[o] = NoObject THEN sc.matrix_basis[o]
  ELSE matrix_world(sc, sc.parent[o]) + sc.matrix_parent_inverse[o]
       + sc.matrix_basis[o]

\* Blender's BKE_object_parent_loop_check: par is ob or a descendant of ob
RECURSIVE ParentLoop(_, _, _)
ParentLoop(sc, par, ob) ==
  IF par = NoObject THEN FALSE
  ELSE IF par = ob THEN TRUE
  ELSE ParentLoop(sc, sc.parent[par], ob)

\* SetParent without the host's loop check
SetParent_LoopAccepted(sc, ob, par) ==
  [sc EXCEPT !.parent[ob] = par, !.matrix_parent_inverse[ob] = 0]

\* obj.parent = par: the host clears the parent inverse, and refuses a
\* parent that would close a loop (the parent becomes None)
SetParent(sc, ob, par) ==
  [sc EXCEPT !.parent[ob] = IF ParentLoop(sc, par, ob) THEN NoObject ELSE par,
             !.matrix_parent_inverse[ob] = 0]

\* RemoveObject leaving the pointers to o in place
RemoveObject_PointersKept(sc, o) == [sc EXCEPT !.objects = @ \ {o}]

\* bpy.data.objects.remove(o, do_unlink=True): every pointer to o becomes None
RemoveObject(sc, o) ==
  [sc EXCEPT
     !.objects = @ \ {o},
     !.parent = [x \in AllObjects |-> IF @[x] = o \/ x = o THEN NoObject ELSE @[x]],
     !.modifiers = [x \in AllObjects |->
                      IF x = o THEN <<>>
                      ELSE [k \in 1..Len(@[x]) |->
                              IF @[x][k].object = o
                                THEN [@[x][k] EXCEPT !.object = NoObject]
                                ELSE @[x][k]]],
     !.users_collection[o] = {},
     !.vertex_groups[o] = <<>>]

\* the live objects in bpy.data.objects order
LiveOrder(sc) == SelectSeq(ObjectOrder, LAMBDA o : o \in sc.objects)

HasArmatureModFor(sc, obj, armature) ==
  \E k \in 1..Len(sc.modifiers[obj]) :
     sc.modifiers[obj][k].type = "ARMATURE" /\ sc.modifiers[obj][k].object = armature

\* find_meshes_for_armature; transfer_mesh_weights collects its meshes the
\* same way: a mesh with a modifier on the armature or parented to it, once
find_meshes_for_armature(sc, armature) ==
  SelectSeq(LiveOrder(sc),
            LAMBDA obj : /\ ObjType(obj) = "MESH"
                         /\ \/ HasArmatureModFor(sc, obj, armature)
                            \/ sc.parent[obj] = armature)

(***************************************************************************)
(* Mapping entries of the settings (BoneMappingItem) and the bone map      *)
(***************************************************************************)
\* BoneMap that takes the disabled entries too
BoneMap_DisabledToo(mappings) ==
  LET used == SelectSeq(mappings, LAMBDA m : m.target_bone /= <<>>)
  IN [k \in 1..Len(used) |-> <<used[k].ue5_bone, used[k].target_bone>>]

\* bone_map of RetargetSkeleton.execute: the <<ue5_bone, target_bone>> pairs
\* of the entries that are enabled and have a target, in dict order
BoneMap(mappings) ==
  LET Used(m) == m.enabled /\ m.target_bone /= <<>>
      used == SelectSeq(mappings, Used)
  IN [k \in 1..Len(used) |-> <<used[k].ue5_bone, used[k].target_bone>>]

\* reverse_map = {v: k for k, v in bone_map.items()}: target -> source bone,
\* the last pair of a target wins
InReverseMap(bone_map, name) == \E k \in 1..Len(bone_map) : bone_map[k][2] = name

ReverseMap(bone_map, name) ==
  bone_map[LastIndex({k \in 1..Len(bone_map) : bone_map[k][2] = name})][1]

(***************************************************************************)
(* align_skeleton_bones                                                    *)
(***************************************************************************)
HasBone(arm, name) == InList(name, BonesOf(arm))

\* target_matrix @ p, p a bone coordinate of arm
BoneToWorld(sc, world, arm, c) == world[arm] + (sc.obj_scale[arm] * c) \div 2

\* source_matrix_inv @ w, as a bone coordinate of arm
WorldToBone(sc, world, arm, w) == (2 * (w - world[arm])) \div sc.obj_scale[arm]

\* the pairs of bone_map that align a bone
Alignable(bone_map, source, target) ==
  {k \in 1..Len(bone_map) :
     HasBone(source, bone_map[k][1]) /\ HasBone(target, bone_map[k][2])}

AlignedGeom(sc, world, source, target, target_bone_name) ==
  LET target_bone == sc.bone_geom[target][target_bone_name]
  IN [head |-> WorldToBone(sc, world, source,
                           BoneToWorld(sc, world, target, target_bone.head)),
      tail |-> WorldToBone(sc, world, source,
                           BoneToWorld(sc, world, target, target_bone.tail)),
      roll |-> target_bone.roll]

\* the loop over bone_map.items(): source bones take the geometry of their
\* target bones (bone_map has one pair per source bone)
AlignBones(sc, world, source, target, bone_map) ==
  [sc EXCEPT !.bone_geom[source] =
     [b \in DOMAIN @ |->
        IF \E k \in Alignable(bone_map, source, target) : bone_map[k][1] = b
          THEN AlignedGeom(sc, world, source, target,
                 bone_map[LastIndex({k \in Alignable(bone_map, source, target) :
                                       bone_map[k][1] = b})][2])
          ELSE @[b]]]

\* ApplyScale resetting the object's scale without rescaling the bones
ApplyScale_ObjectOnly(sc, source) == [sc EXCEPT !.obj_scale[source] = 1]

\* bpy.ops.object.transform_apply(scale=True) on the source armature
ApplyScale(sc, source) ==
  [sc EXCEPT !.bone_geom[source] =
                [b \in DOMAIN @ |->
                   [head |-> @[b].head * sc.obj_scale[source],
                    tail |-> @[b].tail * sc.obj_scale[source],
                    roll |-> @[b].roll]],
             !.obj_scale[source] = 1]

\* returns <<scene, aligned>>
align_skeleton_bones(sc, world, source, target, bone_map, apply_scale) ==
  LET moved == AlignBones(sc, world, source, target, bone_map)
  IN << IF apply_scale THEN ApplyScale(moved, source) ELSE moved,
        Cardinality(Alignable(bone_map, source, target)) >>

(***************************************************************************)
(* transfer_mesh_weights                                                   *)
(***************************************************************************)
\* mesh_obj.vertex_groups.get(name): index of the group of that name, 0 for None
GroupIndex(groups, name) ==
  IF \E k \in 1..Len(groups) : groups[k].name = name
    THEN FirstIndex({k \in 1..Len(groups) : groups[k].name = name})
    ELSE 0

GroupById(groups, id) == CHOOSE k \in 1..Len(groups) : groups[k].id = id

\* merge_vertex_groups that overwrites a shared vertex with the source weight
merge_vertex_groups_SourceWins(source_w, target_w) ==
  [v \in DOMAIN source_w \cup DOMAIN target_w |->
     IF v \in DOMAIN source_w THEN source_w[v] ELSE target_w[v]]

\* merge_vertex_groups: the weights of target_vg after merging source_vg in
merge_vertex_groups(source_w, target_w) ==
  [v \in DOMAIN source_w \cup DOMAIN target_w |->
     IF v \in DOMAIN source_w
       THEN IF v \in DOMAIN target_w
              THEN (source_w[v] + target_w[v]) \div 2
              ELSE source_w[v]
       ELSE target_w[v]]

RemoveAt(seq, k) == SubSeq(seq, 1, k - 1) \o SubSeq(seq, k + 1, Len(seq))

\* RenameOrMerge that merges but keeps the merged group
RenameOrMerge_GroupKept(groups, id, new_name) ==
  LET vg       == GroupById(groups, id)
      existing == GroupIndex(groups, new_name)
  IN IF existing /= 0 /\ existing /= vg
       THEN [groups EXCEPT ![existing].w =
               [v \in DOMAIN groups[vg].w \cup DOMAIN @ |->
                  IF v \in DOMAIN groups[vg].w
                    THEN IF v \in DOMAIN @
                           THEN (groups[vg].w[v] + @[v]) \div 2
                           ELSE groups[vg].w[v]
                    ELSE @[v]]]
       ELSE [groups EXCEPT ![vg].name = new_name]

\* one turn of "for vg, new_name in groups_to_rename": merge into the group
\* that holds new_name and remove vg, or rename vg
RenameOrMerge(groups, id, new_name) ==
  LET vg       == GroupById(groups, id)
      existing == GroupIndex(groups, new_name)
  IN IF existing /= 0 /\ existing /= vg
       THEN RemoveAt([groups EXCEPT ![existing].w =
                         merge_vertex_groups(groups[vg].w, groups[existing].w)],
                     vg)
       ELSE [groups EXCEPT ![vg].name = new_name]

\* groups_to_rename: <<id, new_name>> of the groups named after a target bone
GroupsToRename(groups, bone_map) ==
  LET hit == SelectSeq(groups, LAMBDA vg : InReverseMap(bone_map, vg.name))
  IN [k \in 1..Len(hit) |-> <<hit[k].id, ReverseMap(bone_map, hit[k].name)>>]

RECURSIVE RenameLoop(_, _, _)
RenameLoop(groups, todo, k) ==
  IF k > Len(todo) THEN groups
  ELSE RenameLoop(RenameOrMerge(groups, todo[k][1], todo[k][2]), todo, k + 1)

\* the modifiers and the parent of mesh_obj move from target to source
Rebind(sc, world, mesh_obj, source, target) ==
  LET rebound == [sc EXCEPT !.modifiers[mesh_obj] =
                    [k \in 1..Len(@) |->
                       IF @[k].type = "ARMATURE" /\ @[k].object = target
                         THEN [@[k] EXCEPT !.object = source]
                         ELSE @[k]]]
  IN IF sc.parent[mesh_obj] = target
       THEN [SetParent(rebound, mesh_obj, source) EXCEPT
               !.matrix_parent_inverse[mesh_obj] = 0 - world[source]]
       ELSE rebound

\* returns <<scene, success>>
transfer_single_mesh_weights(sc, world, mesh_obj, source, target, bone_map) ==
  With(GroupsToRename(sc.vertex_groups[mesh_obj], bone_map), LAMBDA todo :
    << Rebind([sc EXCEPT !.vertex_groups[mesh_obj] = RenameLoop(@, todo, 1)],
              world, mesh_obj, source, target),
       Len(todo) > 0 >>)

\* the loop over meshes_to_transfer: acc = <<scene, transferred_meshes>>
RECURSIVE TransferLoop(_, _, _, _, _, _, _)
TransferLoop(acc, world, meshes, source, target, bone_map, k) ==
  IF k > Len(meshes) THEN acc
  ELSE With(transfer_single_mesh_weights(acc[1], world, meshes[k],
                                         source, target, bone_map),
            LAMBDA r :
              TransferLoop(<<r[1], IF r[2] THEN Append(acc[2], meshes[k])
                                           ELSE acc[2]>>,
                           world, meshes, source, target, bone_map, k + 1))

\* returns <<scene, transferred_meshes>>
transfer_mesh_weights(sc, world, source, target, bone_map) ==
  TransferLoop(<<sc, <<>>>>, world, find_meshes_for_armature(sc, target),
               source, target, bone_map, 1)

(***************************************************************************)
(* setup_hierarchy                                                         *)
(***************************************************************************)
\* step 1: the source armature takes the target's parent and collections
MoveSourceArmature(sc, world, source, target) ==
  LET target_parent      == sc.parent[target]
      target_collections == sc.users_collection[target]
      reparented ==
        IF target_parent /= NoObject
          THEN [SetParent(sc, source, target_parent) EXCEPT
                  !.matrix_parent_inverse[source] =
                     (0 - world[target_parent]) + world[source]]
          ELSE sc
  IN IF target_collections /= {}
       THEN [reparented EXCEPT !.users_collection[source] = target_collections]
       ELSE reparented

\* index of the first ARMATURE modifier, 0 when there is none
FirstArmatureMod(mods) ==
  IF \E k \in 1..Len(mods) : mods[k].type = "ARMATURE"
    THEN FirstIndex({k \in 1..Len(mods) : mods[k].type = "ARMATURE"})
    ELSE 0

\* step 2 for one mesh: parent it to the source armature and point its first
\* armature modifier (a new one when it has none) at the source armature
ParentMesh(sc, world, mesh_obj, source) ==
  LET parented ==
        IF sc.parent[mesh_obj] /= source
          THEN [SetParent(sc, mesh_obj, source) EXCEPT
                  !.matrix_parent_inverse[mesh_obj] =
                     (0 - world[source]) + world[mesh_obj]]
          ELSE sc
      first == FirstArmatureMod(sc.modifiers[mesh_obj])
  IN IF first /= 0
       THEN [parented EXCEPT !.modifiers[mesh_obj][first].object = source]
       ELSE [parented EXCEPT !.modifiers[mesh_obj] = Append(@, ArmatureMod(source))]

RECURSIVE ParentMeshes(_, _, _, _, _)
ParentMeshes(sc, world, meshes, source, k) ==
  IF k > Len(meshes) THEN sc
  ELSE ParentMeshes(ParentMesh(sc, world, meshes[k], source),
                    world, meshes, source, k + 1)

setup_hierarchy(sc, world, source, target, meshes) ==
  ParentMeshes(MoveSourceArmature(sc, world, source, target),
               world, meshes, source, 1)

(***************************************************************************)
(* cleanup_ue5_meshes, cleanup_target_skeleton                             *)
(***************************************************************************)
RECURSIVE cleanup_ue5_meshes(_, _, _, _)
cleanup_ue5_meshes(sc, ue5_meshes, transferred_meshes, k) ==
  IF k > Len(ue5_meshes) THEN sc
  ELSE IF InList(ue5_meshes[k], transferred_meshes)
          \/ ue5_meshes[k] \notin sc.objects
         THEN cleanup_ue5_meshes(sc, ue5_meshes, transferred_meshes, k + 1)
         ELSE cleanup_ue5_meshes(RemoveObject(sc, ue5_meshes[k]),
                                 ue5_meshes, transferred_meshes, k + 1)

\* returns <<scene, deleted>>
cleanup_target_skeleton(sc, target) ==
  IF target = NoObject \/ target \notin sc.objects
    THEN <<sc, FALSE>>
    ELSE <<RemoveObject(sc, target), TRUE>>

(***************************************************************************)
(* RetargetSkeleton.execute on scene sc with the settings st               *)
(*   [source_armature, target_armature, bone_mappings]                     *)
(* and the operator's options; returns [scene, settings, status].          *)
(***************************************************************************)
RetargetOptions ==
  [transfer_weights : BOOLEAN, apply_scale : BOOLEAN,
   delete_target_skeleton : BOOLEAN, delete_ue5_source_mesh : BOOLEAN]

Cancelled(sc, st) == [scene |-> sc, settings |-> st, status |-> "CANCELLED"]

\* ClearedSettings that keeps the mapping entries
ClearedSettings_MappingsKept(st, deleted_target) ==
  IF deleted_target THEN [st EXCEPT !.target_armature = NoObject] ELSE st

\* the mapping references are cleared once the target is deleted
ClearedSettings(st, deleted_target) ==
  IF deleted_target
    THEN [st EXCEPT !.target_armature = NoObject, !.bone_mappings = <<>>]
    ELSE st

\* steps 3 to 5 and the return: moved = <<scene, transferred_meshes>>
RetargetFinish(moved, world, st, opt, ue5_source_meshes) ==
  LET source  == st.source_armature
      target  == st.target_armature
      placed  == setup_hierarchy(moved[1], world, source, target, moved[2])
      cleaned == IF opt.delete_ue5_source_mesh /\ ue5_source_meshes /= <<>>
                   THEN cleanup_ue5_meshes(placed, ue5_source_meshes, moved[2], 1)
                   ELSE placed
  IN With(IF opt.delete_target_skeleton
            THEN cleanup_target_skeleton(cleaned, target)
            ELSE <<cleaned, FALSE>>,
          LAMBDA removed :
            [scene    |-> removed[1],
             settings |-> ClearedSettings(st, removed[2]),
             status   |-> "FINISHED"])

\* steps 1 and 2, once bone_map is known to be non-empty
RetargetRun(sc, st, opt, bone_map, world) ==
  LET source == st.source_armature
      target == st.target_armature
      ue5_source_meshes ==
        IF opt.delete_ue5_source_mesh
          THEN find_meshes_for_armature(sc, source) ELSE <<>>
  IN With(align_skeleton_bones(sc, world, source, target, bone_map,
                               opt.apply_scale),
          LAMBDA aligned :
            IF aligned[2] = 0
              THEN Cancelled(aligned[1], st)
              ELSE With(IF opt.transfer_weights
                          THEN transfer_mesh_weights(aligned[1], world, source,
                                                     target, bone_map)
                          ELSE <<aligned[1], <<>>>>,
                        LAMBDA moved :
                          RetargetFinish(moved, world, st, opt,
                                         ue5_source_meshes)))

RetargetExecute(sc, st, opt) ==
  IF st.source_armature = NoObject \/ st.target_armature = NoObject
    THEN Cancelled(sc, st)
    ELSE With(BoneMap(st.bone_mappings), LAMBDA bone_map :
           IF bone_map = <<>>
             THEN Cancelled(sc, st)
             ELSE With([o \in AllObjects |-> matrix_world(sc, o)],
                       LAMBDA world :
                         RetargetRun(sc, st, opt, bone_map, world)))

(***************************************************************************)
(* TransferShapeKeys (shape_keys.py), topology mode.  Positions are the    *)
(* coordinates of one axis; a mesh object is the record                    *)
(*   [matrix_world, vertices, key_blocks]                                  *)
(* with key_blocks a sequence of [name, data], empty when the mesh has no  *)
(* shape keys, and key_blocks[1] the Basis.  interpolation_falloff is kept *)
(* in halves (0, 1, 2 for 0.0, 0.5, 1.0), and so is a mapping weight.      *)
(***************************************************************************)
Abs(x) == IF x < 0 THEN 0 - x ELSE x

\* the weight 1.0
FullWeight == 2

\* TopologyWeight that applies the falloff under a threshold of 0 too
TopologyWeight_ZeroThresholdLimits(distance, distance_threshold, interpolation_falloff) ==
  IF distance > distance_threshold
    THEN Max2(0, FullWeight
                   - (distance - distance_threshold) * interpolation_falloff)
    ELSE FullWeight

\* build_topology_mapping: the weight of vertex i, in halves
TopologyWeight(distance, distance_threshold, interpolation_falloff) ==
  IF distance_threshold > 0 /\ distance > distance_threshold
    THEN Max2(0, FullWeight
                   - (distance - distance_threshold) * interpolation_falloff)
    ELSE FullWeight

\* build_topology_mapping: the list of [target_idx, source_indices, weights,
\* distance], one entry per target vertex
build_topology_mapping(source_obj, target_obj, opt) ==
  [i \in 1..Len(target_obj.vertices) |->
     LET source_world_pos == source_obj.matrix_world + source_obj.vertices[i]
         target_world_pos == target_obj.matrix_world + target_obj.vertices[i]
         distance         == Abs(source_world_pos - target_world_pos)
     IN [target_idx     |-> i,
         source_indices |-> <<i>>,
         weights        |-> <<TopologyWeight(distance, opt.distance_threshold,
                                             opt.interpolation_falloff)>>,
         distance       |-> distance]]

\* index of the key block of that name, 0 for None
KeyIndex(key_blocks, name) ==
  IF \E k \in 1..Len(key_blocks) : key_blocks[k].name = name
    THEN FirstIndex({k \in 1..Len(key_blocks) : key_blocks[k].name = name})
    ELSE 0

\* apply_shape_key_deltas: the data of the new key
apply_shape_key_deltas(source_basis, source_shape, target_data, target_basis, vertex_mapping) ==
  [i \in 1..Len(target_data) |->
     LET map_entry == vertex_mapping[i]
         src_idx   == map_entry.source_indices[1]
     IN IF src_idx <= Len(source_basis.data)
          THEN target_basis.data[i]
               + ((source_shape.data[src_idx] - source_basis.data[src_idx])
                  * map_entry.weights[1]) \div FullWeight
          ELSE target_basis.data[i]]

\* target_obj.shape_key_add(name, from_mix=False): a key at the mesh's
\* vertex positions
NewKey(target_obj, name) == [name |-> name, data |-> target_obj.vertices]

\* TransferKey that adds the new key without removing the existing one
TransferKey_ExistingKept(acc, source_obj, shape_key, vertex_mapping, opt) ==
  LET existing == KeyIndex(acc.target.key_blocks, shape_key.name)
      new_key  == [NewKey(acc.target, shape_key.name) EXCEPT
                     !.data = apply_shape_key_deltas(
                                source_obj.key_blocks[1], shape_key, @,
                                acc.target.key_blocks[1], vertex_mapping)]
  IN IF ~opt.overwrite_existing /\ existing /= 0
       THEN acc
       ELSE [target      |-> [acc.target EXCEPT
                                !.key_blocks = Append(@, new_key)],
             transferred |-> Append(acc.transferred, shape_key.name)]

\* one turn of the loop over source_keys[1:], for a key that is considered;
\* acc = [target, transferred]
TransferKey(acc, source_obj, shape_key, vertex_mapping, opt) ==
  LET existing == KeyIndex(acc.target.key_blocks, shape_key.name)
      kept     == IF existing /= 0
                    THEN RemoveAt(acc.target.key_blocks, existing)
                    ELSE acc.target.key_blocks
      \* shape_key_remove of the first key: the host makes the next key the
      \* reference key and moves the mesh's vertices to it
      rebased  == IF existing = 1 /\ kept /= <<>>
                    THEN [acc.target EXCEPT !.vertices = kept[1].data]
                    ELSE acc.target
      created  == NewKey(rebased, shape_key.name)
      \* key_blocks[0]: the new key itself when no other key is left
      target_basis == IF kept = <<>> THEN created ELSE kept[1]
      new_key  == [created EXCEPT
                     !.data = apply_shape_key_deltas(
                                source_obj.key_blocks[1], shape_key, @,
                                target_basis, vertex_mapping)]
  IN IF ~opt.overwrite_existing /\ existing /= 0
       THEN acc
       ELSE [target      |-> [rebased EXCEPT
                                !.key_blocks = Append(kept, new_key)],
             transferred |-> Append(acc.transferred, shape_key.name)]

\* the loop over source_keys[1:]; acc = [target, transferred]
RECURSIVE TransferKeys(_, _, _, _, _)
TransferKeys(acc, source_obj, vertex_mapping, opt, k) ==
  IF k > Len(source_obj.key_blocks) THEN acc
  ELSE TransferKeys(TransferKey(acc, source_obj, source_obj.key_blocks[k],
                                vertex_mapping, opt),
                    source_obj, vertex_mapping, opt, k + 1)

\* the loop of transfer_selected_shape_keys: the keys whose name is not in
\* selected_key_names are passed over
RECURSIVE TransferSelectedKeys(_, _, _, _, _, _)
TransferSelectedKeys(acc, source_obj, vertex_mapping, opt, selected_key_names, k) ==
  IF k > Len(source_obj.key_blocks) THEN acc
  ELSE IF source_obj.key_blocks[k].name \notin selected_key_names
    THEN TransferSelectedKeys(acc, source_obj, vertex_mapping, opt,
                              selected_key_names, k + 1)
  ELSE TransferSelectedKeys(
         TransferKey(acc, source_obj, source_obj.key_blocks[k],
                     vertex_mapping, opt),
         source_obj, vertex_mapping, opt, selected_key_names, k + 1)

\* transfer_shape_keys with the topology mapping: [target, transferred]
transfer_shape_keys(source_obj, target_obj, opt) ==
  LET based == IF target_obj.key_blocks = <<>>
                 THEN [target_obj EXCEPT
                         !.key_blocks = <<NewKey(target_obj, "Basis")>>]
                 ELSE target_obj
  IN TransferKeys([target |-> based, transferred |-> <<>>], source_obj,
                  build_topology_mapping(source_obj, based, opt), opt, 2)

\* TransferShapeKeys.execute: [target, transferred, status]
ShapeExecute(source_obj, target_obj, opt) ==
  LET done == transfer_shape_keys(source_obj, target_obj, opt)
  IN IF Len(source_obj.key_blocks) < 2
       THEN [target |-> target_obj, transferred |-> <<>>,
             status |-> "CANCELLED"]
       ELSE [target |-> done.target, transferred |-> done.transferred,
             status |-> IF Len(done.transferred) > 0
                          THEN "FINISHED" ELSE "CANCELLED"]


\* transfer_selected_shape_keys with the topology mapping
transfer_selected_shape_keys(source_obj, target_obj, opt, selected_key_names) ==
  LET based == IF target_obj.key_blocks = <<>>
                 THEN [target_obj EXCEPT
                         !.key_blocks = <<NewKey(target_obj, "Basis")>>]
                 ELSE target_obj
  IN TransferSelectedKeys([target |-> based, transferred |-> <<>>],
                          source_obj,
                          build_topology_mapping(source_obj, based, opt), opt,
                          selected_key_names, 2)

\* SelectiveTransferShapeKeys.execute: [target, transferred, status]
SelectiveExecute(source_obj, target_obj, opt, selected_keys) ==
  LET done == transfer_selected_shape_keys(source_obj, target_obj, opt,
                                           selected_keys)
  IN IF source_obj.key_blocks = <<>> \/ selected_keys = {}
       THEN [target |-> target_obj, transferred |-> <<>>,
             status |-> "CANCELLED"]
       ELSE [target |-> done.target, transferred |-> done.transferred,
             status |-> IF Len(done.transferred) > 0
                          THEN "FINISHED" ELSE "CANCELLED"]

(***************************************************************************)
(* TransferShapeKeys, closest-point mode: the weights of one mapping       *)
(* entry.  A position is a triple of integers.  A list of weights is the   *)
(* record [nums, den]: weight i is nums[i] / den, an exact fraction, as    *)
(* the divisions of the code produce no integer in general.                *)
(* interpolation_falloff is kept in twentieths here, since the decay       *)
(* multiplies it by 10, and the decay factor dist_weight in halves.        *)
(***************************************************************************)
Dot(a, b) == a[1] * b[1] + a[2] * b[2] + a[3] * b[3]

VSub(a, b) == <<a[1] - b[1], a[2] - b[2], a[3] - b[3]>>

\* sum(weights), for the numerators
RECURSIVE SumSeq(_)
SumSeq(s) == IF s = <<>> THEN 0 ELSE Head(s) + SumSeq(Tail(s))

OneThird == [nums |-> <<1, 1, 1>>, den |-> 3]

\* compute_barycentric_weights without the division by the total
compute_barycentric_weights_Unnormalised(point, triangle_verts) ==
  LET v0v1  == VSub(triangle_verts[2], triangle_verts[1])
      v0v2  == VSub(triangle_verts[3], triangle_verts[1])
      v0p   == VSub(point, triangle_verts[1])
      d00   == Dot(v0v1, v0v1)
      d01   == Dot(v0v1, v0v2)
      d11   == Dot(v0v2, v0v2)
      d20   == Dot(v0p, v0v1)
      d21   == Dot(v0p, v0v2)
      denom == d00 * d11 - d01 * d01
      v     == d11 * d20 - d01 * d21
      w     == d00 * d21 - d01 * d20
      u     == denom - v - w
  IN IF denom = 0 THEN OneThird
     ELSE [nums |-> <<Max2(0, u), Max2(0, v), Max2(0, w)>>, den |-> Abs(denom)]

\* compute_barycentric_weights.  denom is an integer here, so it is below
\* 1e-10 in absolute value exactly when it is 0; v, w and u are kept as
\* numerators over denom, whose sign is moved into them.
compute_barycentric_weights(point, triangle_verts) ==
  IF Len(triangle_verts) < 3
    THEN [nums |-> [i \in 1..Len(triangle_verts) |-> 1],
          den  |-> Max2(1, Len(triangle_verts))]
  ELSE
    LET v0v1  == VSub(triangle_verts[2], triangle_verts[1])
        v0v2  == VSub(triangle_verts[3], triangle_verts[1])
        v0p   == VSub(point, triangle_verts[1])
        d00   == Dot(v0v1, v0v1)
        d01   == Dot(v0v1, v0v2)
        d11   == Dot(v0v2, v0v2)
        d20   == Dot(v0p, v0v1)
        d21   == Dot(v0p, v0v2)
        denom == d00 * d11 - d01 * d01
        sign  == IF denom < 0 THEN 0 - 1 ELSE 1
        v     == sign * (d11 * d20 - d01 * d21)
        w     == sign * (d00 * d21 - d01 * d20)
        u     == Abs(denom) - v - w
        weights == <<Max2(0, u), Max2(0, v), Max2(0, w)>>
        total   == SumSeq(weights)
        padding == [i \in 1..(Len(triangle_verts) - 3) |-> 0]
    IN IF Abs(denom) = 0 THEN OneThird
       ELSE IF total > 0
         THEN [nums |-> weights \o padding, den |-> total]
         ELSE [nums |-> <<1, 1, 1>> \o padding, den |-> 3]

\* build_closest_point_mapping: dist_weight, in halves
DistWeight(distance, distance_threshold, interpolation_falloff) ==
  IF distance_threshold > 0 /\ distance > distance_threshold
    THEN Max2(0, FullWeight
                   - (distance - distance_threshold) * interpolation_falloff)
    ELSE FullWeight

\* build_closest_point_mapping: the weights of the entry of one target
\* vertex, from the nearest location on the source, its face and distance
ClosestPointWeights(location, face_vert_positions, distance, opt) ==
  LET dist_weight  == DistWeight(distance, opt.distance_threshold,
                                 opt.interpolation_falloff)
      bary_weights == compute_barycentric_weights(location,
                                                  face_vert_positions)
  IN [bary  |-> bary_weights,
      final |-> [nums |-> [i \in 1..Len(bary_weights.nums) |->
                             bary_weights.nums[i] * dist_weight],
                 den  |-> bary_weights.den * FullWeight]]

(***************************************************************************)
(* The exchange with Unreal (files.py, imports.py, exports.py).  File      *)
(* paths, names and the AB_ custom properties are Python strings, kept as  *)
(* sequences of characters like the bone names.                            *)
(***************************************************************************)
\* s.replace(old, new) for a pattern old of one or two characters
RECURSIVE Replace(_, _, _)
Replace(s, old, new) ==
  IF s = <<>> THEN <<>>
  ELSE IF StartsWith(s, old)
         THEN new \o Replace(SubSeq(s, Len(old) + 1, Len(s)), old, new)
         ELSE <<Head(s)>> \o Replace(Tail(s), old, new)

\* s.rstrip('/')
RECURSIVE RStripSlash(_)
RStripSlash(s) ==
  IF s /= <<>> /\ s[Len(s)] = "/"
    THEN RStripSlash(SubSeq(s, 1, Len(s) - 1)) ELSE s

\* s.lstrip('/')
RECURSIVE LStripSlash(_)
LStripSlash(s) == IF s /= <<>> /\ Head(s) = "/" THEN LStripSlash(Tail(s)) ELSE s

\* s.rfind('/') + 1: the length of the part up to the last slash
LastSlash(s) ==
  IF \E i \in 1..Len(s) : s[i] = "/"
    THEN CHOOSE i \in 1..Len(s) :
           s[i] = "/" /\ \A j \in (i + 1)..Len(s) : s[j] /= "/"
    ELSE 0

\* os.path.dirname (posixpath): the head up to the last slash, without its
\* trailing slashes unless it consists of slashes only
DirName(p) ==
  LET head == SubSeq(p, 1, LastSlash(p))
  IN IF head /= <<>> /\ RStripSlash(head) /= <<>> THEN RStripSlash(head)
     ELSE head

\* os.path.join(a, b) (posixpath)
PathJoin(a, b) ==
  IF StartsWith(b, <<"/">>) THEN b
  ELSE IF a = <<>> \/ EndsWith(a, <<"/">>) THEN a \o b
  ELSE a \o <<"/">> \o b

\* clean_path: backslashes become slashes, then each '//' becomes '/'
clean_path(path) ==
  Replace(Replace(path, <<"\\">>, <<"/">>), <<"/", "/">>, <<"/">>)

\* the default of the preferences' first path
default_path ==
  <<"/","/","A","s","s","e","t","s","B","r","i","d","g","e",".","j","s","o","n">>

\* is_bridge_configured that accepts the default path
is_bridge_configured_DefaultAccepted(paths) ==
  IF paths = <<>> \/ paths[1] = <<>> THEN FALSE
  ELSE paths[1] /= <<>>

\* is_bridge_configured; paths is preferences.filepaths as the list of
\* its entries' path
is_bridge_configured(paths) ==
  IF paths = <<>> \/ paths[1] = <<>> THEN FALSE
  ELSE paths[1] /= default_path /\ paths[1] /= <<>>

get_bridge_directory(paths) ==
  IF paths /= <<>> /\ paths[1] /= <<>>
    THEN clean_path(DirName(paths[1]))
    ELSE <<>>

from_unreal_json ==
  <<"f","r","o","m","-","u","n","r","e","a","l",".","j","s","o","n">>

from_blender_json ==
  <<"f","r","o","m","-","b","l","e","n","d","e","r",".","j","s","o","n">>

get_from_unreal_path(paths) ==
  IF get_bridge_directory(paths) /= <<>>
    THEN PathJoin(get_bridge_directory(paths), from_unreal_json)
    ELSE <<>>

get_from_blender_path(paths) ==
  IF get_bridge_directory(paths) /= <<>>
    THEN PathJoin(get_bridge_directory(paths), from_blender_json)
    ELSE <<>>

(***************************************************************************)
(* The scene as Import and Export see it: the record                       *)
(*   [objects, parent, props, collection, collections, selected,           *)
(*    location, key_names, units]                                          *)
(* props[o] holds the AB_ custom properties of object o, each a string or  *)
(* Unset; collection[o] is the path of the collection o is linked to,      *)
(* below the top-level 'Collection'; units is scene.unit_settings with     *)
(* scale_length in thousandths.  The disk is the record                    *)
(*   [files, dirs, task, written]                                          *)
(* with task the content of from-unreal.json and written the content       *)
(* last written to from-blender.json.                                      *)
(***************************************************************************)
BridgeObjects == {"Cube", "Rig", "Arm", "Body", "Rock", "Hero", "HeroMesh"}

\* the order in which the host lists objects and children
BridgeOrder == <<"Cube", "Rig", "Arm", "Body", "Rock", "Hero", "HeroMesh">>

BridgeType(o) ==
  IF o \in {"Cube", "Body", "Rock", "HeroMesh"} THEN "MESH"
  ELSE IF o \in {"Arm", "Hero"} THEN "ARMATURE"
  ELSE "EMPTY"

\* obj.name
BridgeName(o) ==
  IF o = "Cube" THEN <<"C","u","b","e">>
  ELSE IF o = "Rig" THEN <<"R","i","g">>
  ELSE IF o = "Arm" THEN <<"A","r","m">>
  ELSE IF o = "Body" THEN <<"B","o","d","y">>
  ELSE IF o = "Rock" THEN <<"S","M","_","R">>
  ELSE IF o = "Hero" THEN <<"S","K","_","H">>
  ELSE <<"S","K","_","H",".","0">>

\* a custom property that is not set
Unset == <<"unset">>

True == <<"True">>

False == <<"False">>

PropKeys ==
  {"AB_model", "AB_objectId", "AB_internalPath", "AB_relativeExportPath",
   "AB_exportLocation", "AB_stringType", "AB_shortName", "AB_objectMaterials",
   "AB_skeleton", "AB_isExportRoot"}

NoProps == [k \in PropKeys |-> Unset]

\* obj.get(key, default)
Get(sc, o, key, default) ==
  IF sc.props[o][key] = Unset THEN default ELSE sc.props[o][key]

\* obj[key] = value
SetProp(sc, o, key, value) == [sc EXCEPT !.props[o][key] = value]

\* configure_scene_for_unreal: the unit settings afterwards
configure_scene_for_unreal(units) ==
  [system       |-> "METRIC",
   scale_length |-> IF Abs(units.scale_length - 10) > 1
                      THEN 10 ELSE units.scale_length]

\* retrieve_task_task_file_path: the path, empty after an error report
retrieve_task_task_file_path(paths, disk) ==
  IF ~is_bridge_configured(paths) THEN <<>>
  ELSE IF get_from_unreal_path(paths) = <<>> THEN <<>>
  ELSE IF get_from_unreal_path(paths) \notin disk.files THEN <<>>
  ELSE get_from_unreal_path(paths)

\* find_existing_object_by_id: the first object with that AB_objectId
find_existing_object_by_id(sc, object_id) ==
  LET hits == {k \in 1..Len(BridgeOrder) :
                 /\ BridgeOrder[k] \in sc.objects
                 /\ sc.props[BridgeOrder[k]]["AB_objectId"] = object_id}
  IN IF hits = {} THEN NoObject ELSE BridgeOrder[FirstIndex(hits)]

\* set_world_scale, set_world_rotation, set_world_location: the object
\* takes the transform of the item's worldData
SetWorld(sc, o, item) == [sc EXCEPT !.location[o] = item.location]

update_existing_object_transform(sc, existing_obj, item) ==
  IF item.stringType = <<"S","t","a","t","i","c","M","e","s","h">>
    THEN SetWorld(sc, existing_obj, item)
  ELSE IF item.stringType
            = <<"S","k","e","l","e","t","a","l","M","e","s","h">>
          /\ Get(sc, existing_obj, "AB_isExportRoot", False) = True
    THEN SetWorld(sc, existing_obj, item)
  ELSE sc

\* item["internalPath"].split('/') without the empty parts
RECURSIVE SplitPath(_, _)
SplitPath(s, part) ==
  IF s = <<>> THEN (IF part = <<>> THEN <<>> ELSE <<part>>)
  ELSE IF Head(s) = "/"
         THEN (IF part = <<>> THEN <<>> ELSE <<part>>) \o SplitPath(Tail(s), <<>>)
         ELSE SplitPath(Tail(s), Append(part, Head(s)))

\* ensure_collection_hierarchy: the collections afterwards; the collection
\* of path hierarchy is the one returned
ensure_collection_hierarchy(collections, hierarchy) ==
  collections \cup {SubSeq(hierarchy, 1, n) : n \in 0..Len(hierarchy)}

StaticMesh == <<"S","t","a","t","i","c","M","e","s","h">>

SkeletalMesh == <<"S","k","e","l","e","t","a","l","M","e","s","h">>

\* bpy.ops.import_scene.gltf: the objects the file of an item holds, in the
\* host's order; a skeletal asset is an armature with its mesh
ImportedObjects(item) ==
  IF item.stringType = SkeletalMesh THEN <<"Hero", "HeroMesh">> ELSE <<"Rock">>

\* the scene once the file of the item is imported: the new objects are
\* linked to the active collection and are the selection
ImportGltf(sc, item) ==
  LET new == ImportedObjects(item)
      ids == {new[k] : k \in 1..Len(new)}
  IN [sc EXCEPT
        !.objects = @ \cup ids,
        !.parent = [o \in BridgeObjects |->
                      IF o = "HeroMesh" /\ o \in ids THEN "Hero"
                      ELSE IF o \in ids THEN NoObject ELSE @[o]],
        !.props = [o \in BridgeObjects |-> IF o \in ids THEN NoProps ELSE @[o]],
        !.collection = [o \in BridgeObjects |-> IF o \in ids THEN <<>> ELSE @[o]],
        !.location = [o \in BridgeObjects |-> IF o \in ids THEN 0 ELSE @[o]],
        !.key_names = [o \in BridgeObjects |->
                         IF o = "HeroMesh" /\ o \in ids
                           THEN << <<"B","a","s","i","s">>,
                                   <<"t","a","r","g","e","t","_","0">>,
                                   <<"t","a","r","g","e","t","_","1">> >>
                         ELSE IF o \in ids THEN <<>> ELSE @[o]],
        !.selected = ids]

\* the first object of the list of that type without a parent, or None
FirstParentless(sc, objs, types) ==
  LET hits == {k \in 1..Len(objs) :
                 BridgeType(objs[k]) \in types /\ sc.parent[objs[k]] = NoObject}
  IN IF hits = {} THEN NoObject ELSE objs[FirstIndex(hits)]

find_import_root(sc, imported_objs, item_type) ==
  LET all     == {"EMPTY", "ARMATURE", "MESH"}
      by_type == IF item_type = SkeletalMesh
                   THEN <<{"EMPTY"}, {"ARMATURE"}, {"MESH"}, all>>
                   ELSE <<{"MESH"}, all>>
      hits    == {k \in 1..Len(by_type) :
                    FirstParentless(sc, imported_objs, by_type[k]) /= NoObject}
  IN IF hits /= {}
       THEN FirstParentless(sc, imported_objs, by_type[FirstIndex(hits)])
     ELSE IF imported_objs /= <<>> THEN imported_objs[1]
     ELSE NoObject

\* restore_shape_key_names on one mesh: names from position i on, with
\* shape_key_index targets already passed
RECURSIVE RestoreKeyNames(_, _, _, _)
RestoreKeyNames(names, morph_targets, i, shape_key_index) ==
  IF i > Len(names) THEN names
  ELSE IF names[i] = <<"B","a","s","i","s">>
    THEN RestoreKeyNames(names, morph_targets, i + 1, shape_key_index)
  ELSE IF StartsWith(names[i], <<"t","a","r","g","e","t","_">>)
          \/ StartsWith(names[i], <<"K","e","y"," ">>)
    THEN RestoreKeyNames(
           IF shape_key_index < Len(morph_targets)
             THEN [names EXCEPT ![i] = morph_targets[shape_key_index + 1]]
             ELSE names,
           morph_targets, i + 1, shape_key_index + 1)
  ELSE RestoreKeyNames(names, morph_targets, i + 1, shape_key_index)

restore_shape_key_names(sc, imported_objs, morph_targets) ==
  [sc EXCEPT !.key_names =
     [o \in BridgeObjects |->
        IF InList(o, imported_objs) /\ BridgeType(o) = "MESH" /\ @[o] /= <<>>
          THEN RestoreKeyNames(@[o], morph_targets, 1, 0)
          ELSE @[o]]]

set_object_custom_properties(sc, o, item) ==
  [sc EXCEPT !.props[o] =
     [k \in PropKeys |->
        IF k = "AB_model" THEN item.model
        ELSE IF k = "AB_objectId" THEN item.objectId
        ELSE IF k = "AB_internalPath" THEN item.internalPath
        ELSE IF k = "AB_relativeExportPath" THEN item.relativeExportPath
        ELSE IF k = "AB_exportLocation" THEN item.exportLocation
        ELSE IF k = "AB_stringType" THEN item.stringType
        ELSE IF k = "AB_shortName" THEN item.shortName
        ELSE IF k = "AB_objectMaterials" THEN item.objectMaterials
        ELSE IF k = "AB_skeleton" /\ item.skeleton /= <<>> THEN item.skeleton
        ELSE @[k]]]

\* the loop over imported_objs of process_and_import_object, for one object
SetUpImported(sc, o, item, root_obj, root_collection) ==
  LET tagged == SetProp(set_object_custom_properties(sc, o, item), o,
                        "AB_isExportRoot",
                        IF o = root_obj THEN True ELSE False)
      linked == [tagged EXCEPT !.collection[o] = root_collection]
  IN IF item.stringType = StaticMesh THEN SetWorld(linked, o, item)
     ELSE IF item.stringType = SkeletalMesh /\ o = root_obj
       THEN SetWorld(linked, o, item)
     ELSE linked

RECURSIVE SetUpAllImported(_, _, _, _, _, _)
SetUpAllImported(sc, imported_objs, item, root_obj, root_collection, k) ==
  IF k > Len(imported_objs) THEN sc
  ELSE With(SetUpImported(sc, imported_objs[k], item, root_obj,
                          root_collection),
            LAMBDA set_up :
              SetUpAllImported(set_up, imported_objs, item, root_obj,
                               root_collection, k + 1))

process_and_import_object(sc, item) ==
  LET existing_obj == IF item.objectId /= <<>>
                        THEN find_existing_object_by_id(sc, item.objectId)
                        ELSE NoObject
      hierarchy    == SplitPath(item.internalPath, <<>>)
      grouped      == [sc EXCEPT !.collections =
                         ensure_collection_hierarchy(@, hierarchy)]
      imported     == ImportGltf(grouped, item)
      imported_objs == ImportedObjects(item)
      root_obj     == find_import_root(imported, imported_objs,
                                       item.stringType)
      renamed      == IF item.stringType = SkeletalMesh
                         /\ item.morphTargets /= <<>>
                        THEN restore_shape_key_names(imported, imported_objs,
                                                     item.morphTargets)
                        ELSE imported
  IN IF existing_obj /= NoObject
       THEN update_existing_object_transform(sc, existing_obj, item)
       ELSE SetUpAllImported(renamed, imported_objs, item, root_obj,
                             hierarchy, 1)

RECURSIVE ImportItems(_, _, _)
ImportItems(sc, items, k) ==
  IF k > Len(items) THEN sc
  ELSE With(process_and_import_object(sc, items[k]), LAMBDA imported :
         ImportItems(imported, items, k + 1))

\* BridgedImport.execute: [scene, status]; task is the content of the task
\* file, read only once its path is known
ImportExecute(sc, paths, disk) ==
  LET configured == [sc EXCEPT !.units = configure_scene_for_unreal(@)]
  IN IF retrieve_task_task_file_path(paths, disk) = <<>>
       THEN [scene |-> configured, status |-> "CANCELLED"]
     ELSE IF disk.task.operation = <<>>
       THEN [scene |-> configured, status |-> "CANCELLED"]
     ELSE [scene  |-> ImportItems(configured, disk.task.objects, 1),
           status |-> "FINISHED"]

(***************************************************************************)
(* BridgedExport (exports.py)                                              *)
(***************************************************************************)
\* obj.children, in the host's order
Children(sc, o) ==
  SelectSeq(BridgeOrder, LAMBDA c : c \in sc.objects /\ sc.parent[c] = o)

\* obj.children_recursive, as a set; the parent relation has no loop
RECURSIVE Descendants(_, _)
Descendants(sc, o) ==
  LET kids == {c \in sc.objects : sc.parent[c] = o}
  IN kids \cup UNION {Descendants(sc, c) : c \in kids}

\* mark_hierarchy_processed
mark_hierarchy_processed(sc, o, processed) ==
  processed \cup {o} \cup Descendants(sc, o)

RECURSIVE find_hierarchy_root(_, _)
find_hierarchy_root(sc, current) ==
  IF sc.parent[current] = NoObject THEN current
  ELSE IF Get(sc, sc.parent[current], "AB_isExportRoot", False) = True
    THEN sc.parent[current]
  ELSE find_hierarchy_root(sc, sc.parent[current])

\* find_export_roots: the set export_roots after the loop over the
\* selection from position k on
RECURSIVE ExportRootsLoop(_, _, _, _, _)
ExportRootsLoop(sc, selected_objects, export_roots, processed, k) ==
  IF k > Len(selected_objects) THEN export_roots
  ELSE
    LET obj  == selected_objects[k]
        root == find_hierarchy_root(sc, obj)
    IN IF obj \in processed
         THEN ExportRootsLoop(sc, selected_objects, export_roots, processed,
                              k + 1)
       ELSE IF Get(sc, obj, "AB_isExportRoot", False) = True
         THEN ExportRootsLoop(sc, selected_objects, export_roots \cup {obj},
                              mark_hierarchy_processed(sc, obj, processed),
                              k + 1)
       ELSE IF root \notin export_roots
         THEN ExportRootsLoop(sc, selected_objects, export_roots \cup {root},
                              mark_hierarchy_processed(sc, root, processed),
                              k + 1)
       ELSE ExportRootsLoop(sc, selected_objects, export_roots, processed,
                            k + 1)

find_export_roots(sc, selected_objects) ==
  ExportRootsLoop(sc, selected_objects, {}, {}, 1)

\* is_skeletal_hierarchy: an armature in the hierarchy (a mesh here has no
\* armature modifier)
is_skeletal_hierarchy(sc, o) ==
  \E d \in {o} \cup Descendants(sc, o) : BridgeType(d) = "ARMATURE"

\* find_armature_in_hierarchy: depth first through the children
RECURSIVE find_armature_in_hierarchy(_, _)
find_armature_in_hierarchy(sc, o) ==
  LET kids == Children(sc, o)
      hits == {k \in 1..Len(kids) :
                 find_armature_in_hierarchy(sc, kids[k]) /= NoObject}
  IN IF BridgeType(o) = "ARMATURE" THEN o
     ELSE IF hits = {} THEN NoObject
     ELSE find_armature_in_hierarchy(sc, kids[FirstIndex(hits)])

\* '/'.join(parts)
RECURSIVE JoinSlash(_)
JoinSlash(parts) ==
  IF parts = <<>> THEN <<>>
  ELSE IF Len(parts) = 1 THEN parts[1]
  ELSE parts[1] \o <<"/">> \o JoinSlash(Tail(parts))

\* get_collection_hierarchy_path: the collections above the object, without
\* the top-level 'Collection'
get_collection_hierarchy_path(sc, o) == JoinSlash(sc.collection[o])

\* os.path.normpath (posixpath): the components kept, '..' resolved
RECURSIVE NormParts(_, _, _)
NormParts(comps, new_comps, rooted) ==
  IF comps = <<>> THEN new_comps
  ELSE IF Head(comps) = <<".">> THEN NormParts(Tail(comps), new_comps, rooted)
  ELSE IF Head(comps) /= <<".", ".">>
          \/ (~rooted /\ new_comps = <<>>)
          \/ (new_comps /= <<>> /\ new_comps[Len(new_comps)] = <<".", ".">>)
    THEN NormParts(Tail(comps), Append(new_comps, Head(comps)), rooted)
  ELSE IF new_comps /= <<>>
    THEN NormParts(Tail(comps), SubSeq(new_comps, 1, Len(new_comps) - 1),
                   rooted)
  ELSE NormParts(Tail(comps), new_comps, rooted)

NormPath(path) ==
  LET slashes == IF StartsWith(path, <<"/", "/">>)
                      /\ ~StartsWith(path, <<"/", "/", "/">>)
                   THEN <<"/", "/">>
                 ELSE IF StartsWith(path, <<"/">>) THEN <<"/">>
                 ELSE <<>>
      joined  == slashes \o JoinSlash(NormParts(SplitPath(path, <<>>), <<>>,
                                                slashes /= <<>>))
  IN IF joined = <<>> THEN <<".">> ELSE joined

\* get_export_path: the path of the .glb file of the object
get_export_path(sc, o, paths) ==
  LET base_path       == get_bridge_directory(paths)
      internal_path   == Get(sc, o, "AB_internalPath", <<>>)
      collection_path == IF internal_path /= <<>>
                           THEN LStripSlash(internal_path)
                           ELSE get_collection_hierarchy_path(sc, o)
      filename        == Get(sc, o, "AB_shortName", BridgeName(o))
  IN NormPath(PathJoin(PathJoin(base_path, collection_path),
                       filename \o <<".", "g", "l", "b">>))

\* the materials a new object is given by setup_defaults
default_materials ==
  <<"W","o","r","l","d","G","r","i","d","M","a","t","e","r","i","a","l">>

GameMeshes == <<"/","G","a","m","e","/","M","e","s","h","e","s">>

\* setup_defaults
setup_defaults(sc, o) ==
  LET string_type ==
        IF Get(sc, o, "AB_stringType", <<>>) /= <<>>
          THEN sc.props[o]["AB_stringType"]
        ELSE IF StartsWith(BridgeName(o), <<"S","M","_">>) THEN StaticMesh
        ELSE IF StartsWith(BridgeName(o), <<"S","K","_">>)
                \/ StartsWith(BridgeName(o), <<"S","K","M","_">>)
          THEN SkeletalMesh
        ELSE IF is_skeletal_hierarchy(sc, o) THEN SkeletalMesh
        ELSE StaticMesh
  IN [sc EXCEPT !.props[o] =
        [k \in PropKeys |->
           IF k = "AB_stringType" THEN string_type
           ELSE IF k = "AB_objectId" THEN Get(sc, o, k, <<>>)
           ELSE IF k = "AB_internalPath" THEN Get(sc, o, k, GameMeshes)
           ELSE IF k = "AB_relativeExportPath" THEN Get(sc, o, k, GameMeshes)
           ELSE IF k = "AB_shortName" THEN Get(sc, o, k, BridgeName(o))
           ELSE IF k = "AB_exportLocation" THEN Get(sc, o, k, <<>>)
           ELSE IF k = "AB_objectMaterials"
             THEN Get(sc, o, k, default_materials)
           ELSE @[k]]]

\* the AB_model of an object of that class, path and name
ModelPath(class, internal_path, short_name) ==
  <<"/","S","c","r","i","p","t","/","E","n","g","i","n","e",".">> \o class
    \o <<"'","/","G","a","m","e","/">> \o internal_path \o <<"/">>
    \o short_name \o <<".">> \o short_name \o <<"'">>

\* prepare_object; makedirs is the caller's: see ExportDirs
prepare_object(sc, o, paths) ==
  With(setup_defaults(sc, o), LAMBDA defaults :
    LET short_name    == Get(defaults, o, "AB_shortName", BridgeName(o))
        internal_path == IF Get(defaults, o, "AB_internalPath", <<>>) /= <<>>
                           THEN defaults.props[o]["AB_internalPath"]
                           ELSE get_collection_hierarchy_path(defaults, o)
        existing_model == Get(defaults, o, "AB_model", <<>>)
        is_default_model ==
          existing_model = <<>>
            \/ Contains(existing_model,
                        <<"'","/","G","a","m","e","/","M","e","s","h","e","s","/">>)
        string_type   == Get(defaults, o, "AB_stringType", <<>>)
    IN [defaults EXCEPT !.props[o] =
          [k \in PropKeys |->
             IF k = "AB_exportLocation"
               THEN get_export_path(defaults, o, paths)
             ELSE IF k \in {"AB_internalPath", "AB_relativeExportPath"}
               THEN internal_path
             ELSE IF k = "AB_model" /\ is_default_model
                     /\ string_type \in {StaticMesh, SkeletalMesh}
               THEN ModelPath(string_type, internal_path, short_name)
             ELSE @[k]]])

\* prepare_hierarchy: prepare_object on every object below o
RECURSIVE PrepareAll(_, _, _, _)
PrepareAll(sc, objs, paths, k) ==
  IF k > Len(objs) THEN sc
  ELSE With(prepare_object(sc, objs[k], paths), LAMBDA prepared :
         PrepareAll(prepared, objs, paths, k + 1))

prepare_hierarchy(sc, o, paths) ==
  PrepareAll(sc, SelectSeq(BridgeOrder, LAMBDA d : d \in Descendants(sc, o)),
             paths, 1)

\* os.makedirs of get_export_path, for every object prepare_object and
\* prepare_hierarchy went through: the directories afterwards
ExportDirs(sc, objs, dirs) ==
  dirs \cup {DirName(sc.props[o]["AB_exportLocation"]) : o \in objs}

\* get_export_info
get_export_info(sc, o) ==
  [model          |-> Get(sc, o, "AB_model", <<>>),
   objectId       |-> Get(sc, o, "AB_objectId", <<>>),
   internalPath   |-> Get(sc, o, "AB_internalPath", <<>>),
   shortName      |-> Get(sc, o, "AB_shortName", BridgeName(o)),
   exportLocation |-> Get(sc, o, "AB_exportLocation", <<>>),
   stringType     |-> Get(sc, o, "AB_stringType", <<>>),
   location       |-> sc.location[o]]

\* the body of the loop of BridgedExport.execute for one root: st is
\* [scene, disk, objects], objects the list written to the bridge file
ExportRoot(st, root_obj, paths) ==
  With(prepare_object(st.scene, root_obj, paths), LAMBDA prepared :
    LET skeletal  == Get(st.scene, root_obj, "AB_stringType", <<>>)
                       = SkeletalMesh
                       \/ is_skeletal_hierarchy(st.scene, root_obj)
        armature_obj == find_armature_in_hierarchy(prepared, root_obj)
        hierarchy == {root_obj} \cup Descendants(prepared, root_obj)
        touched   ==
          IF skeletal /\ armature_obj /= NoObject
            THEN {root_obj, armature_obj}
                   \cup Descendants(prepared, armature_obj)
          ELSE IF skeletal THEN hierarchy
          ELSE {root_obj}
    IN With(IF skeletal /\ armature_obj /= NoObject
              THEN [prepare_hierarchy(
                      prepare_object(prepared, armature_obj, paths),
                      armature_obj, paths)
                    EXCEPT !.selected =
                      IF BridgeType(root_obj) = "EMPTY"
                        THEN hierarchy \ {root_obj} ELSE hierarchy]
            ELSE IF skeletal
              THEN [prepare_hierarchy(prepared, root_obj, paths)
                    EXCEPT !.selected = hierarchy]
            ELSE [prepared EXCEPT !.selected = {root_obj}],
            LAMBDA after :
              [scene   |-> after,
               disk    |-> [st.disk EXCEPT
                              !.dirs = ExportDirs(after, touched, @),
                              !.files = @ \cup
                                 {after.props[root_obj]["AB_exportLocation"]}],
               objects |-> Append(st.objects,
                                  get_export_info(after, root_obj))]))

RECURSIVE ExportRoots(_, _, _, _)
ExportRoots(st, export_roots, paths, k) ==
  IF k > Len(export_roots) THEN st
  ELSE With(ExportRoot(st, export_roots[k], paths), LAMBDA exported :
         ExportRoots(exported, export_roots, paths, k + 1))


\* BridgedExport.execute: [scene, disk, status]; export_roots is
\* list(find_export_roots(...)) in the order the set is iterated
ExportExecute(sc, paths, disk, export_roots) ==
  LET done == ExportRoots([scene |-> sc, disk |-> disk, objects |-> <<>>],
                          export_roots, paths, 1)
  IN IF ~is_bridge_configured(paths)
       THEN [scene |-> sc, disk |-> disk, status |-> "CANCELLED"]
     ELSE IF get_from_blender_path(paths) = <<>>
       THEN [scene |-> sc, disk |-> disk, status |-> "CANCELLED"]
     ELSE IF sc.selected = {}
       THEN [scene |-> sc, disk |-> disk, status |-> "FINISHED"]
     ELSE IF export_roots = <<>>
       THEN [scene |-> sc, disk |-> disk, status |-> "CANCELLED"]
     ELSE [scene  |-> done.scene,
           disk   |-> [done.disk EXCEPT
                         !.files = @ \cup {get_from_blender_path(paths)},
                         !.written = done.objects],
           status |-> "FINISHED"]

\* BridgedExport.invoke: execute, then FINISHED whatever execute returned
ExportInvoke(sc, paths, disk, export_roots) ==
  [ExportExecute(sc, paths, disk, export_roots) EXCEPT !.status = "FINISHED"]
VARIABLES
  \* ---- the scene and the retarget settings (scene.ab_skeleton_retarget)
  scene,                 \* the scene record described above
  source_armature,       \* settings.source_armature, NoObject for None
  target_armature,       \* settings.target_armature
  bone_mappings,         \* settings.bone_mappings: sequence of entries
  active_mapping_index,  \* settings.active_mapping_index (0-based)
  last,                  \* the last Retarget: [command, status, opt]
  commands,              \* number of commands run so far
  \* ---- build_bone_mapping, pass by pass
  b_ue5_bones,       \* ue5_bones: the source skeleton's bone names
  b_target_bones,    \* target_bones
  b_pass,            \* number of passes completed (5: the list is returned)
  b_locals,          \* [used_targets, mapping_results]
  b_mappings,        \* the returned list
  \* ---- compute_match_confidence
  c_ue5_bone, c_target_bone,
  c_result,          \* <<confidence, reason>> once computed, <<>> before
  \* ---- the vertex groups of one mesh under merge_vertex_groups
  m_groups,          \* mesh_obj.vertex_groups
  m_initial,         \* the groups before any merge
  m_op,              \* "none", "branch" (the merge branch ran) or "merge"
  m_dir,             \* <<source id, target id>> of the merges applied
  m_applied          \* number of times merge_vertex_groups was applied

settingsVars ==
  <<source_armature, target_armature, bone_mappings, active_mapping_index>>

sceneVars == <<scene, settingsVars, last, commands>>

builderVars == <<b_ue5_bones, b_target_bones, b_pass, b_locals, b_mappings>>

confVars == <<c_ue5_bone, c_target_bone, c_result>>

mergeVars == <<m_groups, m_initial, m_op, m_dir, m_applied>>

VARIABLES
  \* ---- TransferShapeKeys
  s_source,          \* source_obj
  s_target,          \* target_obj (the active object)
  s_opt,             \* the operator's properties
  s_transferred,     \* names of the keys transferred, in order
  s_status           \* "none" before the command, then its return value

shapeVars == <<s_source, s_target, s_opt, s_transferred, s_status>>

VARIABLES
  \* ---- one entry of build_closest_point_mapping
  q_location,        \* the nearest location on the source mesh
  q_face,            \* face_vert_positions
  q_distance,        \* distance from the target vertex to the location
  q_opt,             \* [distance_threshold, interpolation_falloff]
  q_weights          \* [bary, final] once computed, <<>> before

baryVars == <<q_location, q_face, q_distance, q_opt, q_weights>>

VARIABLES
  \* ---- Import and Export
  x_scene,           \* the scene of the exchange, see above
  x_prefs,           \* preferences.filepaths: the path of each entry
  x_disk,            \* [files, dirs, task, written]
  x_last,            \* [op, status, returned, export_roots] of the last command
  x_commands         \* commands run so far

bridgeVars == <<x_scene, x_prefs, x_disk, x_last, x_commands>>

VARIABLES
  \* ---- one Retarget invocation, step by step
  r_run              \* the locals of RetargetSkeleton.execute, see SpecSteps

stepVars == <<r_run>>

vars ==
  <<sceneVars, builderVars, confVars, mergeVars, shapeVars, baryVars,
    bridgeVars, stepVars>>

NoOptions ==
  [transfer_weights |-> FALSE, apply_scale |-> FALSE,
   delete_target_skeleton |-> FALSE, delete_ue5_source_mesh |-> FALSE]

NoCommand == [command |-> 0, status |-> "none", opt |-> NoOptions]

EmptyScene ==
  [objects |-> {},
   parent |-> [o \in AllObjects |-> NoObject],
   modifiers |-> [o \in AllObjects |-> <<>>],
   users_collection |-> [o \in AllObjects |-> {}],
   vertex_groups |-> [o \in AllObjects |-> <<>>],
   bone_geom |-> [a \in Armatures |-> <<>>],
   matrix_basis |-> [o \in AllObjects |-> 0],
   matrix_parent_inverse |-> [o \in AllObjects |-> 0],
   obj_scale |-> [o \in AllObjects |-> 1]]

SceneIdle ==
  /\ scene = EmptyScene
  /\ source_armature = NoObject /\ target_armature = NoObject
  /\ bone_mappings = <<>> /\ active_mapping_index = 0
  /\ last = NoCommand /\ commands = 0

BuilderIdle ==
  /\ b_ue5_bones = <<>> /\ b_target_bones = <<>> /\ b_pass = 0
  /\ b_locals = BuilderStart /\ b_mappings = <<>>

ConfIdle == c_ue5_bone = <<>> /\ c_target_bone = <<>> /\ c_result = <<>>

MergeIdle ==
  /\ m_groups = <<>> /\ m_initial = <<>> /\ m_op = "none"
  /\ m_dir = <<>> /\ m_applied = 0

NoMesh == [matrix_world |-> 0, vertices |-> <<>>, key_blocks |-> <<>>]

NoShapeOptions ==
  [distance_threshold |-> 0, interpolation_falloff |-> 0,
   overwrite_existing |-> FALSE]

ShapeIdle ==
  /\ s_source = NoMesh /\ s_target = NoMesh /\ s_opt = NoShapeOptions
  /\ s_transferred = <<>> /\ s_status = "none"

BaryIdle ==
  /\ q_location = <<0, 0, 0>> /\ q_face = <<>> /\ q_distance = 0
  /\ q_opt = [distance_threshold |-> 0, interpolation_falloff |-> 0]
  /\ q_weights = <<>>


NoBridgeScene ==
  [objects |-> {},
   parent |-> [o \in BridgeObjects |-> NoObject],
   props |-> [o \in BridgeObjects |-> NoProps],
   collection |-> [o \in BridgeObjects |-> <<>>],
   collections |-> {<<>>},
   selected |-> {},
   location |-> [o \in BridgeObjects |-> 0],
   key_names |-> [o \in BridgeObjects |-> <<>>],
   units |-> [system |-> "NONE", scale_length |-> 1000]]

NoTask == [operation |-> <<>>, objects |-> <<>>]

NoDisk == [files |-> {}, dirs |-> {}, task |-> NoTask, written |-> <<>>]

NoBridgeCommand ==
  [op |-> "none", status |-> "none", returned |-> "none", export_roots |-> <<>>]

BridgeIdle ==
  /\ x_scene = NoBridgeScene /\ x_prefs = <<>> /\ x_disk = NoDisk
  /\ x_last = NoBridgeCommand
  /\ x_commands = 0

\* no invocation is running
NoRun ==
  [pc |-> "idle", opt |-> NoOptions, source |-> NoObject, target |-> NoObject,
   bone_map |-> <<>>, world |-> <<>>, ue5_source_meshes |-> <<>>,
   transferred_meshes |-> <<>>, deleted_target |-> FALSE, done |-> <<>>,
   start |-> <<>>]

StepIdle == r_run = NoRun
(***************************************************************************)
(* Specification SpecBuilder: build_bone_mapping on every pair of bone     *)
(* lists of the pool, one step per pass.                                   *)
(***************************************************************************)
\* a skeleton has at most this many bones (beside the two scenario lists)
MaxBones == 2

BuilderPool ==
  {nm_Hand, nm_hand, nm_def_hand, nm_hand_l, nm_lefthand, nm_head}

ScenarioSource == <<nm_Hips, nm_Spine, nm_Spine1, nm_LeftArm>>

ScenarioTarget == <<nm_pelvis, nm_spine_01, nm_spine_02, nm_upperarm_l>>

BoneLists ==
  Arrangements(BuilderPool, MaxBones) \cup {ScenarioSource, ScenarioTarget}

BuilderInit ==
  /\ b_ue5_bones \in BoneLists
  /\ b_target_bones \in BoneLists
  /\ b_pass = 0
  /\ b_locals = BuilderStart
  /\ b_mappings = <<>>
  /\ SceneIdle /\ ConfIdle /\ MergeIdle /\ ShapeIdle /\ BaryIdle /\ BridgeIdle
  /\ StepIdle

BuildPass1 ==
  /\ b_pass = 0
  /\ b_locals' = Pass1(b_ue5_bones, b_target_bones, b_locals, 1)
  /\ b_pass' = 1
  /\ UNCHANGED <<b_ue5_bones, b_target_bones, b_mappings>>
  /\ UNCHANGED <<sceneVars, confVars, mergeVars, shapeVars, baryVars, bridgeVars,
                 stepVars>>

BuildPass2 ==
  /\ b_pass = 1
  /\ b_locals' = Pass2(b_ue5_bones, b_target_bones, b_locals, 1)
  /\ b_pass' = 2
  /\ UNCHANGED <<b_ue5_bones, b_target_bones, b_mappings>>
  /\ UNCHANGED <<sceneVars, confVars, mergeVars, shapeVars, baryVars, bridgeVars,
                 stepVars>>

BuildPass3 ==
  /\ b_pass = 2
  /\ b_locals' = Pass3(b_ue5_bones, b_target_bones, b_locals, 1)
  /\ b_pass' = 3
  /\ UNCHANGED <<b_ue5_bones, b_target_bones, b_mappings>>
  /\ UNCHANGED <<sceneVars, confVars, mergeVars, shapeVars, baryVars, bridgeVars,
                 stepVars>>

BuildPass4 ==
  /\ b_pass = 3
  /\ b_locals' = Pass4(b_ue5_bones, b_target_bones, b_locals)
  /\ b_pass' = 4
  /\ UNCHANGED <<b_ue5_bones, b_target_bones, b_mappings>>
  /\ UNCHANGED <<sceneVars, confVars, mergeVars, shapeVars, baryVars, bridgeVars,
                 stepVars>>

BuildReturn ==
  /\ b_pass = 4
  /\ b_mappings' = [i \in 1..Len(b_ue5_bones) |->
                       b_locals.mapping_results[b_ue5_bones[i]]]
  /\ b_pass' = 5
  /\ UNCHANGED <<b_ue5_bones, b_target_bones, b_locals>>
  /\ UNCHANGED <<sceneVars, confVars, mergeVars, shapeVars, baryVars, bridgeVars,
                 stepVars>>

BuilderNext ==
  BuildPass1 \/ BuildPass2 \/ BuildPass3 \/ BuildPass4 \/ BuildReturn

SpecBuilder == BuilderInit /\ [][BuilderNext]_vars

(***************************************************************************)
(* Specification SpecConfidence: compute_match_confidence on every pair    *)
(* of names of the pool.                                                   *)
(***************************************************************************)
ConfPool ==
  {nm_Hand, nm_hand, nm_def_hand, nm_hand_l, nm_hand_r, nm_Hand_R,
   nm_lefthand, nm_RightHand, nm_head, nm_root, nm_ball_r, nm_toe_r,
   nm_toe_l, nm_ctrl_hand_r, nm_thumb_l, nm_thumb_01_l, nm_index_l,
   nm_finger0_l, nm_finger1_l, <<>>}

ConfInit ==
  /\ c_ue5_bone \in ConfPool
  /\ c_target_bone \in ConfPool
  /\ c_result = <<>>
  /\ SceneIdle /\ BuilderIdle /\ MergeIdle /\ ShapeIdle /\ BaryIdle /\ BridgeIdle
  /\ StepIdle

ComputeMatchConfidence ==
  /\ c_result = <<>>
  /\ c_result' = compute_match_confidence(c_ue5_bone, c_target_bone)
  /\ UNCHANGED <<c_ue5_bone, c_target_bone>>
  /\ UNCHANGED <<sceneVars, builderVars, mergeVars, shapeVars, baryVars, bridgeVars,
                 stepVars>>

ConfNext == ComputeMatchConfidence

SpecConfidence == ConfInit /\ [][ConfNext]_vars


(***************************************************************************)
(* Specification Spec: the retargeting commands on a scene with two        *)
(* skeletons, SK_A (root, hand_r) with its mesh M2 and SK_B (Hand_R,       *)
(* Hand_L) with its mesh M1, and an empty Root.  The selection, the mode   *)
(* and the active bone are the user's and enter the commands as inputs.    *)
(***************************************************************************)
\* the user runs at most this many commands
MaxCommands == 3

\* the vertex groups M1 may start with, by name and in order
GroupLists ==
  Arrangements({nm_Hand_R, nm_hand_r}, 2) \cup {<<nm_Hand_L, nm_Hand_R>>}

InitWeight(name) ==
  IF name = nm_Hand_R THEN (1 :> 24) @@ (2 :> 16)
  ELSE IF name = nm_hand_r THEN (1 :> 16)
  ELSE IF name = nm_Hand_L THEN (2 :> 24)
  ELSE (1 :> 40)

\* the vertex groups of the given names, in that order
GroupsNamed(names) ==
  [k \in 1..Len(names) |-> [id |-> k, name |-> names[k], w |-> InitWeight(names[k])]]

InitBoneGeom ==
  [a \in Armatures |->
     IF a = "SK_A"
       THEN (nm_root :> [head |-> 0, tail |-> 2, roll |-> 0])
            @@ (nm_hand_r :> [head |-> 4, tail |-> 6, roll |-> 0])
       ELSE (nm_Hand_R :> [head |-> 8, tail |-> 12, roll |-> 1])
            @@ (nm_Hand_L :> [head |-> 10, tail |-> 14, roll |-> 2])]

Init ==
  /\ \E m1_parent \in {NoObject, "SK_B"},
        m1_modifiers \in {<<>>, <<ArmatureMod("SK_B")>>},
        skb_parent \in {NoObject, "Root"},
        m1_groups \in GroupLists :
       /\ m1_parent = "SK_B" \/ m1_modifiers /= <<>>
       /\ scene =
            [objects |-> AllObjects,
             parent |-> [o \in AllObjects |->
                           IF o = "M1" THEN m1_parent
                           ELSE IF o = "M2" THEN "SK_A"
                           ELSE IF o = "SK_B" THEN skb_parent
                           ELSE NoObject],
             modifiers |-> [o \in AllObjects |->
                              IF o = "M1" THEN m1_modifiers
                              ELSE IF o = "M2" THEN <<ArmatureMod("SK_A")>>
                              ELSE <<>>],
             users_collection |-> [o \in AllObjects |->
                                     IF o \in {"SK_A", "M2"}
                                       THEN {"Collection"} ELSE {"Characters"}],
             vertex_groups |-> [o \in AllObjects |->
                                  IF o = "M1" THEN GroupsNamed(m1_groups)
                                  ELSE IF o = "M2"
                                    THEN GroupsNamed(<<nm_root, nm_hand_r>>)
                                  ELSE <<>>],
             bone_geom |-> InitBoneGeom,
             matrix_basis |-> [o \in AllObjects |->
                                 IF o = "SK_B" THEN 2
                                 ELSE IF o = "Root" THEN 1
                                 ELSE IF o = "M1" THEN 3
                                 ELSE 0],
             matrix_parent_inverse |-> [o \in AllObjects |-> 0],
             obj_scale |-> [o \in AllObjects |-> IF o = "SK_A" THEN 2 ELSE 1]]
  /\ source_armature = NoObject /\ target_armature = NoObject
  /\ bone_mappings = <<>> /\ active_mapping_index = 0
  /\ last = NoCommand /\ commands = 0
  /\ BuilderIdle /\ ConfIdle /\ MergeIdle /\ ShapeIdle /\ BaryIdle /\ BridgeIdle
  /\ StepIdle

OtherVars == <<builderVars, confVars, mergeVars, shapeVars, baryVars, bridgeVars,
                 stepVars>>

\* one more command is run
Command ==
  /\ commands < MaxCommands
  /\ commands' = commands + 1

\* BuildBoneMapping: two armatures are selected, the active one is the target
BuildBoneMapping(source, target) ==
  /\ Command
  /\ source \in scene.objects /\ target \in scene.objects
  /\ source /= target
  /\ source_armature' = source
  /\ target_armature' = target
  /\ bone_mappings' = build_bone_mapping(BonesOf(source), BonesOf(target))
  /\ UNCHANGED <<scene, active_mapping_index, last, OtherVars>>

ClearBoneMapping ==
  /\ Command
  /\ bone_mappings' = <<>>
  /\ source_armature' = NoObject
  /\ target_armature' = NoObject
  /\ UNCHANGED <<scene, active_mapping_index, last, OtherVars>>

\* the panel's list: the user selects a row
SelectMapping(index) ==
  /\ Command
  /\ index < Len(bone_mappings)
  /\ active_mapping_index' = index
  /\ UNCHANGED <<scene, source_armature, target_armature, bone_mappings,
                 last, OtherVars>>

\* ManualOverride that leaves the entry's enabled flag as it is
ManualOverride_EnabledKept(mappings, index, bone_name) ==
  [mappings EXCEPT ![index + 1] =
     [@ EXCEPT !.target_bone = bone_name,
               !.confidence = Pct(100),
               !.category = "HIGH",
               !.reason = "manual_override"]]

\* SetMappingTarget.execute: the assignments to the active entry
ManualOverride(mappings, index, bone_name) ==
  [mappings EXCEPT ![index + 1] =
     [@ EXCEPT !.target_bone = bone_name,
               !.enabled = TRUE,
               !.confidence = Pct(100),
               !.category = "HIGH",
               !.reason = "manual_override"]]

\* SetMappingTarget: bone_name is the active bone of an armature in pose or
\* edit mode
SetMappingTarget(armature, bone_name) ==
  /\ Command
  /\ bone_mappings /= <<>>
  /\ active_mapping_index < Len(bone_mappings)
  /\ armature \in scene.objects
  /\ HasBone(armature, bone_name)
  /\ bone_mappings' =
       ManualOverride(bone_mappings, active_mapping_index, bone_name)
  /\ UNCHANGED <<scene, source_armature, target_armature,
                 active_mapping_index, last, OtherVars>>

ToggleAllMappings(enable) ==
  /\ Command
  /\ bone_mappings' =
       [k \in 1..Len(bone_mappings) |->
          IF bone_mappings[k].target_bone /= <<>>
            THEN [bone_mappings[k] EXCEPT !.enabled = enable]
            ELSE bone_mappings[k]]
  /\ UNCHANGED <<scene, source_armature, target_armature,
                 active_mapping_index, last, OtherVars>>

Settings ==
  [source_armature |-> source_armature, target_armature |-> target_armature,
   bone_mappings |-> bone_mappings]

\* a pointer property reads None once its object is removed
Pointer(sc, o) == IF o \in sc.objects THEN o ELSE NoObject

\* RetargetSkeleton.execute with the operator's options opt
Retarget(opt) ==
  /\ \E r \in {RetargetExecute(scene, Settings, opt)} :
     /\ scene' = r.scene
     /\ source_armature' = Pointer(r.scene, r.settings.source_armature)
     /\ target_armature' = Pointer(r.scene, r.settings.target_armature)
     /\ bone_mappings' = r.settings.bone_mappings
     /\ last' = [command |-> commands', status |-> r.status, opt |-> opt]
     /\ UNCHANGED <<active_mapping_index, OtherVars>>

RetargetSkeleton(opt) == Command /\ Retarget(opt)

Next ==
  \/ \E source, target \in Armatures : BuildBoneMapping(source, target)
  \/ ClearBoneMapping
  \/ \E index \in 0..(Len(bone_mappings) - 1) : SelectMapping(index)
  \/ \E armature \in Armatures :
       \E k \in 1..Len(BonesOf(armature)) :
          SetMappingTarget(armature, BonesOf(armature)[k])
  \/ \E enable \in BOOLEAN : ToggleAllMappings(enable)
  \/ \E opt \in RetargetOptions : RetargetSkeleton(opt)

Spec == Init /\ [][Next]_vars

(***************************************************************************)
(* Specification SpecMerge: one mesh with the groups Hand_R (id 1) and     *)
(* hand_r (id 2), in either order and with every choice of weights, under  *)
(* the merge branch of transfer_single_mesh_weights (Hand_R is renamed to  *)
(* hand_r, which exists) and under merge_vertex_groups applied on its own, *)
(* in either direction, once and again.                                    *)
(***************************************************************************)
\* the mesh has this many vertices
NumVerts == 3

\* merge_vertex_groups is applied at most this many times
MaxApplications == 2

MergeVerts == 1..NumVerts

\* the weights 0.4 and 0.6, in units of 1 / 40
MergeWeights == {16, 24}

WeightMaps == UNION {[d -> MergeWeights] : d \in SUBSET MergeVerts}

MergeInit ==
  /\ \E wa, wb \in WeightMaps :
       m_initial = <<[id |-> 1, name |-> nm_Hand_R, w |-> wa],
                     [id |-> 2, name |-> nm_hand_r, w |-> wb]>>
  /\ m_groups \in {m_initial, <<m_initial[2], m_initial[1]>>}
  /\ m_op = "none"
  /\ m_dir = <<>>
  /\ m_applied = 0
  /\ SceneIdle /\ BuilderIdle /\ ConfIdle /\ ShapeIdle /\ BaryIdle /\ BridgeIdle
  /\ StepIdle

\* the turn of the loop over groups_to_rename for (Hand_R, "hand_r")
TransferMergeBranch ==
  /\ m_op = "none"
  /\ m_groups' = RenameOrMerge(m_groups, 1, nm_hand_r)
  /\ m_op' = "branch"
  /\ UNCHANGED <<m_initial, m_dir, m_applied>>
  /\ UNCHANGED <<sceneVars, builderVars, confVars, shapeVars, baryVars, bridgeVars,
                 stepVars>>

\* merge_vertex_groups(mesh_obj, source_vg, target_vg)
MergeVertexGroups(source_vg, target_vg) ==
  /\ m_op \in {"none", "merge"}
  /\ m_applied < MaxApplications
  /\ source_vg /= target_vg
  /\ m_op = "merge" => m_dir = <<source_vg, target_vg>>
  /\ m_groups' =
       [m_groups EXCEPT ![GroupById(m_groups, target_vg)].w =
          merge_vertex_groups(m_groups[GroupById(m_groups, source_vg)].w, @)]
  /\ m_op' = "merge"
  /\ m_dir' = <<source_vg, target_vg>>
  /\ m_applied' = m_applied + 1
  /\ UNCHANGED m_initial
  /\ UNCHANGED <<sceneVars, builderVars, confVars, shapeVars, baryVars, bridgeVars,
                 stepVars>>

MergeNext ==
  \/ TransferMergeBranch
  \/ \E source_vg, target_vg \in {1, 2} : MergeVertexGroups(source_vg, target_vg)

SpecMerge == MergeInit /\ [][MergeNext]_vars

(***************************************************************************)
(* Specification SpecShape: TransferShapeKeys with use_topology on two     *)
(* meshes of equal vertex count.  The source has up to the keys Basis,     *)
(* Smile and Frown; the target has none, a Basis, or a Basis and a Smile   *)
(* of its own.                                                             *)
(***************************************************************************)
\* distance_threshold is at most this
MaxThreshold == 2

\* interpolation_falloff: 0.0, 0.5, 1.0 in halves
Falloffs == {0, 1, 2}

\* world positions of the target object (the source object sits at 0)
TargetWorlds == {0, 1, 3}

SourceRest == <<0, 4>>

RestPositions == {SourceRest, <<0, 6>>}

\* what a key adds to the rest position of a vertex
Deltas == {-2, 0, 2}

ShapeOptions ==
  [distance_threshold : 0..MaxThreshold, interpolation_falloff : Falloffs,
   overwrite_existing : BOOLEAN]

Moved(rest, d) == [i \in 1..Len(rest) |-> rest[i] + d[i]]

TargetKeys(rest) ==
  {<<>>,
   <<[name |-> "Basis", data |-> rest]>>,
   <<[name |-> "Basis", data |-> rest],
     [name |-> "Smile", data |-> Moved(rest, <<2, 2>>)]>>}

ShapeInit ==
  /\ \E d \in [1..2 -> Deltas], n \in 1..3 :
       s_source =
         [matrix_world |-> 0, vertices |-> SourceRest,
          key_blocks |->
            SubSeq(<<[name |-> "Basis", data |-> SourceRest],
                     [name |-> "Smile", data |-> Moved(SourceRest, d)],
                     [name |-> "Frown", data |-> Moved(SourceRest, <<0, 2>>)]>>,
                   1, n)]
  /\ \E world \in TargetWorlds, rest \in RestPositions :
       \E keys \in TargetKeys(rest) :
          s_target = [matrix_world |-> world, vertices |-> rest,
                      key_blocks |-> keys]
  /\ s_opt \in ShapeOptions
  /\ s_transferred = <<>>
  /\ s_status = "none"
  /\ SceneIdle /\ BuilderIdle /\ ConfIdle /\ MergeIdle /\ BaryIdle /\ BridgeIdle
  /\ StepIdle

TransferShapeKeys ==
  /\ s_status = "none"
  /\ Len(s_source.vertices) = Len(s_target.vertices)
  /\ \E r \in {ShapeExecute(s_source, s_target, s_opt)} :
       /\ s_target' = r.target
       /\ s_transferred' = r.transferred
       /\ s_status' = r.status
  /\ UNCHANGED <<s_source, s_opt>>
  /\ UNCHANGED <<sceneVars, builderVars, confVars, mergeVars, baryVars, bridgeVars,
                 stepVars>>

\* SelectiveTransferShapeKeys: selected_keys are the names ticked in the
\* dialog, which lists the source keys after the first
SelectiveTransferShapeKeys(selected_keys) ==
  /\ s_status = "none"
  /\ Len(s_source.vertices) = Len(s_target.vertices)
  /\ selected_keys \subseteq
       {s_source.key_blocks[k].name : k \in 2..Len(s_source.key_blocks)}
  /\ \E r \in {SelectiveExecute(s_source, s_target, s_opt, selected_keys)} :
       /\ s_target' = r.target
       /\ s_transferred' = r.transferred
       /\ s_status' = r.status
  /\ UNCHANGED <<s_source, s_opt>>
  /\ UNCHANGED <<sceneVars, builderVars, confVars, mergeVars, baryVars,
                 bridgeVars,
                 stepVars>>

ShapeNext ==
  \/ TransferShapeKeys
  \/ \E selected_keys \in SUBSET {"Smile", "Frown", "Basis"} :
       SelectiveTransferShapeKeys(selected_keys)

SpecShape == ShapeInit /\ [][ShapeNext]_vars

(***************************************************************************)
(* Specification SpecBasis: the two transfers on a target that has shape   *)
(* keys, from sources whose first key is named Base or Basis and whose     *)
(* later keys are named Basis, Smile or Frown.                             *)
(***************************************************************************)
\* the key lists of the source: d is what the second key adds
SourceKeyLists(d) ==
  {<<[name |-> "Basis", data |-> SourceRest],
     [name |-> "Smile", data |-> Moved(SourceRest, d)],
     [name |-> "Frown", data |-> Moved(SourceRest, <<0, 2>>)]>>,
   <<[name |-> "Base", data |-> SourceRest],
     [name |-> "Basis", data |-> Moved(SourceRest, d)]>>,
   <<[name |-> "Base", data |-> SourceRest],
     [name |-> "Basis", data |-> Moved(SourceRest, d)],
     [name |-> "Smile", data |-> Moved(SourceRest, <<0, 2>>)]>>}

BasisInit ==
  /\ \E d \in [1..2 -> Deltas] :
       \E keys \in SourceKeyLists(d) :
          s_source = [matrix_world |-> 0, vertices |-> SourceRest,
                      key_blocks |-> keys]
  /\ \E world \in TargetWorlds, rest \in RestPositions :
       \E keys \in TargetKeys(rest) \ {<<>>} :
          s_target = [matrix_world |-> world, vertices |-> rest,
                      key_blocks |-> keys]
  /\ s_opt \in ShapeOptions
  /\ s_transferred = <<>>
  /\ s_status = "none"
  /\ SceneIdle /\ BuilderIdle /\ ConfIdle /\ MergeIdle /\ BaryIdle /\ BridgeIdle
  /\ StepIdle

SpecBasis == BasisInit /\ [][ShapeNext]_vars

(***************************************************************************)
(* Specification SpecBary: one entry of build_closest_point_mapping, for   *)
(* the faces of a triangulated source mesh.  The face's corners and the    *)
(* location vary over small pools that hold proper, needle and collapsed   *)
(* triangles and locations inside, on the border and outside of them.      *)
(***************************************************************************)
FacePoints ==
  {<<0, 0, 0>>, <<1, 0, 0>>, <<2, 0, 0>>, <<0, 2, 0>>, <<0, 0, 2>>,
   <<1, 1, 1>>}

Locations ==
  {<<0, 0, 0>>, <<1, 1, 0>>, <<0, 1, 1>>, <<3, 3, 0>>, <<-1, 0, 1>>,
   <<2, -1, 0>>}

\* distance of the target vertex to the location
Distances == {0, 1, 2, 3}

\* interpolation_falloff: 0.0, 0.05, 0.5, 1.0 in twentieths
BaryFalloffs == {0, 1, 10, 20}

BaryInit ==
  /\ q_location \in Locations
  /\ q_face \in [1..3 -> FacePoints]
  /\ q_distance \in Distances
  /\ q_opt \in [distance_threshold : 0..MaxThreshold,
                interpolation_falloff : BaryFalloffs]
  /\ q_weights = <<>>
  /\ SceneIdle /\ BuilderIdle /\ ConfIdle /\ MergeIdle /\ ShapeIdle /\ BridgeIdle
  /\ StepIdle

BuildClosestPointEntry ==
  /\ q_weights = <<>>
  /\ q_weights' = ClosestPointWeights(q_location, q_face, q_distance, q_opt)
  /\ UNCHANGED <<q_location, q_face, q_distance, q_opt>>
  /\ UNCHANGED <<sceneVars, builderVars, confVars, mergeVars, shapeVars,
               bridgeVars,
                 stepVars>>

BaryNext == BuildClosestPointEntry

SpecBary == BaryInit /\ [][BaryNext]_vars

(***************************************************************************)
(* Import and Export run on a scene with a mesh Cube and a rigged asset    *)
(* Rig > Arm > Body, under several preferences, unit settings and task     *)
(* files.                                                                  *)
(***************************************************************************)
MaxBridgeCommands == 2

\* a bridge path the user picked
configured_path == <<"/","b","/","a">>

PrefsPool == {<<>>, << <<>> >>, <<default_path>>, <<configured_path>>}

UnitsPool ==
  {[system |-> "METRIC", scale_length |-> 10],
   [system |-> "NONE", scale_length |-> 1000],
   [system |-> "IMPERIAL", scale_length |-> 10]}

ItemRock ==
  [model |-> <<"m","R">>, objectId |-> <<"1">>,
   internalPath |-> <<"P","/","Q">>, relativeExportPath |-> <<"P","/","Q">>,
   exportLocation |-> <<"/","b","/","R">>, stringType |-> StaticMesh,
   shortName |-> <<"S","M","_","R">>, objectMaterials |-> <<"M">>,
   skeleton |-> <<>>, morphTargets |-> <<>>, location |-> 5]

ItemHero ==
  [model |-> <<"m","H">>, objectId |-> <<"2">>,
   internalPath |-> <<"P">>, relativeExportPath |-> <<"P">>,
   exportLocation |-> <<"/","b","/","H">>, stringType |-> SkeletalMesh,
   shortName |-> <<"S","K","_","H">>, objectMaterials |-> <<"M">>,
   skeleton |-> <<"s","k">>, morphTargets |-> << <<"S","m","i","l","e">> >>,
   location |-> 7]

\* from-unreal.json: absent, with an empty operation, or listing assets
TaskPool ==
  {NoTask,
   [operation |-> <<"U">>, objects |-> <<ItemRock>>],
   [operation |-> <<"U">>, objects |-> <<ItemRock, ItemHero>>]}

UserScene(units) ==
  [NoBridgeScene EXCEPT
     !.objects = {"Cube", "Rig", "Arm", "Body"},
     !.parent = [o \in BridgeObjects |->
                   IF o = "Arm" THEN "Rig"
                   ELSE IF o = "Body" THEN "Arm" ELSE NoObject],
     !.collection = [o \in BridgeObjects |->
                       IF o = "Cube" THEN << <<"P","r","o","p","s">> >>
                       ELSE <<>>],
     !.collections = {<<>>, << <<"P","r","o","p","s">> >>},
     !.location = [o \in BridgeObjects |-> IF o = "Cube" THEN 3 ELSE 0],
     !.units = units]

BridgeInit ==
  /\ x_prefs \in PrefsPool
  /\ \E units \in UnitsPool : x_scene = UserScene(units)
  /\ \E task \in TaskPool, present \in BOOLEAN :
       x_disk = [NoDisk EXCEPT
                   !.task = task,
                   !.files = IF present /\ get_from_unreal_path(x_prefs) /= <<>>
                               THEN {get_from_unreal_path(x_prefs)} ELSE {}]
  /\ x_last = NoBridgeCommand
  /\ x_commands = 0
  /\ SceneIdle /\ BuilderIdle /\ ConfIdle /\ MergeIdle /\ ShapeIdle
  /\ BaryIdle /\ StepIdle

BridgeFrame ==
  UNCHANGED <<sceneVars, builderVars, confVars, mergeVars, shapeVars,
              baryVars, stepVars>>

\* the user changes the selection
Select(S) ==
  /\ x_commands < MaxBridgeCommands
  /\ S \subseteq x_scene.objects
  /\ S /= x_scene.selected
  /\ x_scene' = [x_scene EXCEPT !.selected = S]
  /\ UNCHANGED <<x_prefs, x_disk, x_last, x_commands>>
  /\ BridgeFrame

\* BridgedImport.execute
Import ==
  /\ x_commands < MaxBridgeCommands
  /\ \E r \in {ImportExecute(x_scene, x_prefs, x_disk)} :
       /\ x_scene' = r.scene
       /\ x_last' = [op |-> "Import", status |-> r.status,
                     returned |-> r.status, export_roots |-> <<>>]
  /\ x_commands' = x_commands + 1
  /\ UNCHANGED <<x_prefs, x_disk>>
  /\ BridgeFrame

\* the orders in which a set can be listed
Orders(S) ==
  {order \in [1..Cardinality(S) -> S] :
     \A i, j \in 1..Cardinality(S) : i /= j => order[i] /= order[j]}

\* the lists find_export_roots can return: bpy.context.selected_objects is
\* iterated in an order the code does not choose, and so is the set it builds
ExportRootLists(sc) ==
  UNION {Orders(find_export_roots(sc, selection)) :
           selection \in Orders(sc.selected)}

\* execute gets as far as find_export_roots
ReachesExportRoots(sc, paths) ==
  /\ is_bridge_configured(paths)
  /\ get_from_blender_path(paths) /= <<>>
  /\ sc.selected /= {}

\* BridgedExport.invoke, as run from the panel or a key: the status is what
\* execute returned, returned what the host gets
Export ==
  /\ x_commands < MaxBridgeCommands
  /\ \E export_roots \in ExportRootLists(x_scene) :
       \E r \in {ExportExecute(x_scene, x_prefs, x_disk, export_roots)} :
         /\ x_scene' = r.scene
         /\ x_disk' = r.disk
         /\ x_last' =
              [op |-> "Export", status |-> r.status,
               returned |->
                 ExportInvoke(x_scene, x_prefs, x_disk, export_roots).status,
               export_roots |->
                 IF ReachesExportRoots(x_scene, x_prefs)
                   THEN export_roots ELSE <<>>]
  /\ x_commands' = x_commands + 1
  /\ UNCHANGED x_prefs
  /\ BridgeFrame

BridgeNext ==
  \/ \E S \in SUBSET {"Cube", "Rig", "Arm", "Body", "Rock"} : Select(S)
  \/ Import
  \/ Export

SpecBridge == BridgeInit /\ [][BridgeNext]_vars

(***************************************************************************)
(* Specification SpecRoots: Export on a configured bridge, for every       *)
(* selection of a scene where the imported asset Rock and the mesh Cube    *)
(* may have been parented under other objects and any of Rig, Arm, Cube    *)
(* and Rock may carry the AB_isExportRoot mark.                            *)
(***************************************************************************)
RootsObjects == {"Cube", "Rig", "Arm", "Body", "Rock"}

RootsInit ==
  /\ x_prefs = <<configured_path>>
  /\ \E rock_parent \in {NoObject, "Cube", "Rig", "Body"},
        cube_parent \in {NoObject, "Rig"},
        marked \in SUBSET {"Cube", "Rig", "Arm", "Rock"},
        S \in SUBSET RootsObjects :
       x_scene =
         [UserScene([system |-> "METRIC", scale_length |-> 10]) EXCEPT
            !.objects = RootsObjects,
            !.parent = [o \in BridgeObjects |->
                          IF o = "Rock" THEN rock_parent
                          ELSE IF o = "Cube" THEN cube_parent
                          ELSE @[o]],
            !.props = [o \in BridgeObjects |->
                         IF o \in marked
                           THEN [@[o] EXCEPT !["AB_isExportRoot"] = True]
                           ELSE @[o]],
            !.selected = S]
  /\ x_disk = NoDisk
  /\ x_last = NoBridgeCommand
  /\ x_commands = 0
  /\ SceneIdle /\ BuilderIdle /\ ConfIdle /\ MergeIdle /\ ShapeIdle
  /\ BaryIdle /\ StepIdle

SpecRoots == RootsInit /\ [][Export]_vars

(***************************************************************************)
(* Specification SpecRebind: Retarget on scenes whose mesh M1 is bound in  *)
(* every way a user can bind it (parent and armature modifiers on either   *)
(* skeleton, any parent-relative offset), with the mapping already built   *)
(* by Build Bone Mapping for either choice of source and target.           *)
(***************************************************************************)
\* Retarget is run at most this many times
MaxRetargets == 1

\* the modifier stacks of M1: armature modifiers on the two skeletons
ModifierStacks ==
  {<<>>} \cup {<<ArmatureMod(a)>> : a \in Armatures}
    \cup {<<ArmatureMod(a), ArmatureMod(b)>> : a, b \in Armatures}

\* parent-relative offsets (matrix_parent_inverse) of an object
Offsets == {0, 5}

RebindScene(m1_parent, m1_modifiers, m1_groups, arm_parent, offset) ==
  [objects |-> AllObjects,
   parent |-> [o \in AllObjects |->
                 IF o = "M1" THEN m1_parent
                 ELSE IF o = "M2" THEN "SK_A"
                 ELSE IF o \in Armatures THEN arm_parent[o]
                 ELSE NoObject],
   modifiers |-> [o \in AllObjects |->
                    IF o = "M1" THEN m1_modifiers
                    ELSE IF o = "M2" THEN <<ArmatureMod("SK_A")>>
                    ELSE <<>>],
   users_collection |-> [o \in AllObjects |->
                           IF o \in {"SK_A", "M2"} THEN {"Collection"}
                           ELSE IF o = "SK_B" THEN {"Characters", "Export"}
                           ELSE {"Characters"}],
   vertex_groups |-> [o \in AllObjects |->
                        IF o = "M1" THEN GroupsNamed(m1_groups)
                        ELSE IF o = "M2"
                          THEN GroupsNamed(<<nm_root, nm_hand_r>>)
                        ELSE <<>>],
   bone_geom |-> InitBoneGeom,
   matrix_basis |-> [o \in AllObjects |->
                       IF o = "SK_B" THEN 2
                       ELSE IF o = "Root" THEN 1
                       ELSE IF o = "M1" THEN 3
                       ELSE IF o = "SK_A" THEN 4
                       ELSE 0],
   matrix_parent_inverse |-> [o \in AllObjects |->
                                IF o \in {"M1", "SK_A"} THEN offset ELSE 0],
   obj_scale |-> [o \in AllObjects |-> 1]]

RebindInit ==
  /\ \E m1_parent \in Armatures \cup {NoObject},
        m1_modifiers \in ModifierStacks,
        m1_groups \in {<<nm_Hand_L, nm_Hand_R>>, <<nm_root>>},
        arm_parent \in [Armatures -> {NoObject, "Root"}],
        offset \in Offsets :
       scene = RebindScene(m1_parent, m1_modifiers, m1_groups, arm_parent,
                           offset)
  /\ \E source, target \in Armatures :
       /\ source /= target
       /\ source_armature = source
       /\ target_armature = target
       /\ bone_mappings = build_bone_mapping(BonesOf(source), BonesOf(target))
  /\ active_mapping_index = 0
  /\ last = NoCommand /\ commands = 0
  /\ BuilderIdle /\ ConfIdle /\ MergeIdle /\ ShapeIdle /\ BaryIdle /\ BridgeIdle
  /\ StepIdle

RebindRetarget(opt) ==
  /\ commands < MaxRetargets
  /\ commands' = commands + 1
  /\ Retarget(opt)

RebindNext == \E opt \in RetargetOptions : RebindRetarget(opt)

SpecRebind == RebindInit /\ [][RebindNext]_vars

(***************************************************************************)
(* Specification SpecSteps: RetargetSkeleton.execute one statement group   *)
(* at a time.  r_run holds the locals of the invocation:                   *)
(*   pc                  the step to run next, "idle" outside execute      *)
(*   opt                 the operator's options                            *)
(*   source, target      the two skeletons read from the settings          *)
(*   bone_map, world     the bone map and the objects' matrix_world        *)
(*   ue5_source_meshes, transferred_meshes, deleted_target                 *)
(*   done                the steps that ran, in order                      *)
(*   start               <<scene, settings>> when execute was entered      *)
(***************************************************************************)
\* StepOrder with the target skeleton deleted before the hierarchy is set up
StepOrder_DeleteEarly ==
  <<"align", "transfer", "delete", "hierarchy", "cleanup", "return">>

\* the statement groups of execute after the bone map is built, in order
StepOrder ==
  <<"align", "transfer", "hierarchy", "cleanup", "delete", "return">>

\* the step after pc
NextPc(pc) ==
  StepOrder[1 + CHOOSE k \in 1..Len(StepOrder) : StepOrder[k] = pc]

\* the user has set the target of every row of the list to bone_name
RECURSIVE OverrideRows(_, _, _)
OverrideRows(mappings, bone_name, index) ==
  IF index >= Len(mappings) THEN mappings
  ELSE OverrideRows(ManualOverride(mappings, index, bone_name), bone_name,
                    index + 1)

\* object scales of the skeleton SK_A
SkeletonScales == {1, 2}

StepsInit ==
  /\ \E m1_parent \in Armatures \cup {NoObject},
        m1_modifiers \in {<<>>, <<ArmatureMod("SK_B")>>},
        m1_groups \in {<<nm_Hand_L, nm_Hand_R>>, <<nm_root>>},
        arm_parent \in [Armatures -> {NoObject, "Root"}],
        scale \in SkeletonScales :
       scene = [RebindScene(m1_parent, m1_modifiers, m1_groups, arm_parent, 0)
                  EXCEPT !.obj_scale["SK_A"] = scale]
  /\ \E source, target \in Armatures :
       /\ source /= target
       /\ source_armature = source
       /\ target_armature = target
       /\ \E built \in {build_bone_mapping(BonesOf(source), BonesOf(target))} :
            bone_mappings \in {built, OverrideRows(built, BonesOf(source)[1], 0)}
  /\ active_mapping_index = 0
  /\ last = NoCommand /\ commands = 0
  /\ r_run = NoRun
  /\ BuilderIdle /\ ConfIdle /\ MergeIdle /\ ShapeIdle /\ BaryIdle /\ BridgeIdle

StepsFrame ==
  UNCHANGED <<active_mapping_index, builderVars, confVars, mergeVars,
              shapeVars, baryVars, bridgeVars>>

\* execute up to the collection of the source meshes
RetargetBegin(opt) ==
  /\ r_run.pc = "idle"
  /\ commands < MaxRetargets
  /\ commands' = commands + 1
  /\ IF source_armature = NoObject \/ target_armature = NoObject
          \/ BoneMap(bone_mappings) = <<>>
       THEN /\ last' = [command |-> commands', status |-> "CANCELLED",
                        opt |-> opt]
            /\ r_run' = [NoRun EXCEPT !.opt = opt]
       ELSE /\ r_run' =
                 [pc |-> StepOrder[1], opt |-> opt,
                  source |-> source_armature, target |-> target_armature,
                  bone_map |-> BoneMap(bone_mappings),
                  world |-> [o \in AllObjects |-> matrix_world(scene, o)],
                  ue5_source_meshes |->
                    IF opt.delete_ue5_source_mesh
                      THEN find_meshes_for_armature(scene, source_armature)
                      ELSE <<>>,
                  transferred_meshes |-> <<>>, deleted_target |-> FALSE,
                  done |-> <<>>, start |-> <<scene, Settings>>]
            /\ UNCHANGED last
  /\ UNCHANGED <<scene, source_armature, target_armature, bone_mappings>>
  /\ StepsFrame

\* step 1; execute returns CANCELLED when no bone was aligned
RetargetAlign ==
  /\ r_run.pc = "align"
  /\ \E aligned \in {align_skeleton_bones(scene, r_run.world, r_run.source,
                                         r_run.target, r_run.bone_map,
                                         r_run.opt.apply_scale)} :
       /\ scene' = aligned[1]
       /\ IF aligned[2] = 0
            THEN /\ last' = [command |-> commands, status |-> "CANCELLED",
                             opt |-> r_run.opt]
                 /\ r_run' = [r_run EXCEPT !.pc = "idle"]
            ELSE /\ r_run' = [r_run EXCEPT !.pc = NextPc("align"),
                                           !.done = Append(@, "align")]
                 /\ UNCHANGED last
  /\ UNCHANGED <<source_armature, target_armature, bone_mappings, commands>>
  /\ StepsFrame

\* step 2
RetargetTransfer ==
  /\ r_run.pc = "transfer"
  /\ IF r_run.opt.transfer_weights
       THEN \E moved \in {transfer_mesh_weights(scene, r_run.world,
                                                r_run.source, r_run.target,
                                                r_run.bone_map)} :
              /\ scene' = moved[1]
              /\ r_run' = [r_run EXCEPT !.pc = NextPc("transfer"),
                                        !.transferred_meshes = moved[2],
                                        !.done = Append(@, "transfer")]
       ELSE /\ r_run' = [r_run EXCEPT !.pc = NextPc("transfer")]
            /\ UNCHANGED scene
  /\ UNCHANGED <<source_armature, target_armature, bone_mappings, last,
                 commands>>
  /\ StepsFrame

\* step 3
RetargetHierarchy ==
  /\ r_run.pc = "hierarchy"
  /\ scene' = setup_hierarchy(scene, r_run.world, r_run.source, r_run.target,
                              r_run.transferred_meshes)
  /\ r_run' = [r_run EXCEPT !.pc = NextPc("hierarchy"),
                            !.done = Append(@, "hierarchy")]
  /\ UNCHANGED <<source_armature, target_armature, bone_mappings, last,
                 commands>>
  /\ StepsFrame

\* step 4
RetargetCleanup ==
  /\ r_run.pc = "cleanup"
  /\ IF r_run.opt.delete_ue5_source_mesh /\ r_run.ue5_source_meshes /= <<>>
       THEN /\ scene' = cleanup_ue5_meshes(scene, r_run.ue5_source_meshes,
                                           r_run.transferred_meshes, 1)
            /\ r_run' = [r_run EXCEPT !.pc = NextPc("cleanup"),
                                      !.done = Append(@, "cleanup")]
       ELSE /\ r_run' = [r_run EXCEPT !.pc = NextPc("cleanup")]
            /\ UNCHANGED scene
  /\ UNCHANGED <<source_armature, target_armature, bone_mappings, last,
                 commands>>
  /\ StepsFrame

\* step 5; the settings' pointers read None once their object is removed
RetargetDelete ==
  /\ r_run.pc = "delete"
  /\ IF r_run.opt.delete_target_skeleton
       THEN \E removed \in {cleanup_target_skeleton(scene, r_run.target)} :
              /\ scene' = removed[1]
              /\ r_run' = [r_run EXCEPT !.pc = NextPc("delete"),
                                        !.deleted_target = removed[2],
                                        !.done = Append(@, "delete")]
       ELSE /\ r_run' = [r_run EXCEPT !.pc = NextPc("delete")]
            /\ UNCHANGED scene
  /\ source_armature' = Pointer(scene', source_armature)
  /\ target_armature' = Pointer(scene', target_armature)
  /\ UNCHANGED <<bone_mappings, last, commands>>
  /\ StepsFrame

\* the mapping references are cleared, the result is reported
RetargetReturn ==
  /\ r_run.pc = "return"
  /\ \E cleared \in {ClearedSettings(Settings, r_run.deleted_target)} :
       /\ source_armature' = cleared.source_armature
       /\ target_armature' = cleared.target_armature
       /\ bone_mappings' = cleared.bone_mappings
  /\ last' = [command |-> commands, status |-> "FINISHED", opt |-> r_run.opt]
  /\ r_run' = [r_run EXCEPT !.pc = "idle"]
  /\ UNCHANGED <<scene, commands>>
  /\ StepsFrame

StepsNext ==
  \/ \E opt \in RetargetOptions : RetargetBegin(opt)
  \/ RetargetAlign
  \/ RetargetTransfer
  \/ RetargetHierarchy
  \/ RetargetCleanup
  \/ RetargetDelete
  \/ RetargetReturn

SpecSteps == StepsInit /\ [][StepsNext]_vars

(***************************************************************************)
(* Specification SpecHierarchy: Retarget, step by step, on every acyclic   *)
(* hierarchy of the two skeletons and the mesh M1, among them the ones     *)
(* where the target skeleton is a child of the source skeleton, of a mesh  *)
(* under the source skeleton or of a mesh bound to the target.             *)
(***************************************************************************)
\* the object n parent links above o, NoObject when the chain ends before
RECURSIVE Up(_, _, _)
Up(sc, o, n) ==
  IF n = 0 \/ o = NoObject THEN o ELSE Up(sc, sc.parent[o], n - 1)

\* no object is its own ancestor
Acyclic(sc) ==
  \A o \in AllObjects : Up(sc, o, Cardinality(AllObjects)) = NoObject

\* the parent links of the initial hierarchies
Hierarchies ==
  {p \in [AllObjects -> AllObjects \cup {NoObject}] :
     /\ p["Root"] = NoObject
     /\ p["M2"] = "SK_A"
     /\ p["M1"] \in Armatures \cup {NoObject}
     /\ p["SK_A"] \in {NoObject, "Root", "SK_B", "M1"}
     /\ p["SK_B"] \in {NoObject, "Root", "SK_A", "M1", "M2"}}

HierarchyInit ==
  /\ \E p \in Hierarchies :
       /\ scene = [RebindScene(NoObject, <<ArmatureMod("SK_B")>>,
                               <<nm_Hand_L, nm_Hand_R>>,
                               [a \in Armatures |-> NoObject], 0)
                     EXCEPT !.parent = p]
       /\ Acyclic(scene)
  /\ \E source, target \in Armatures :
       /\ source /= target
       /\ source_armature = source
       /\ target_armature = target
       /\ bone_mappings = build_bone_mapping(BonesOf(source), BonesOf(target))
  /\ active_mapping_index = 0
  /\ last = NoCommand /\ commands = 0
  /\ r_run = NoRun
  /\ BuilderIdle /\ ConfIdle /\ MergeIdle /\ ShapeIdle /\ BaryIdle /\ BridgeIdle

SpecHierarchy == HierarchyInit /\ [][StepsNext]_vars

(***************************************************************************)
(* Properties of the retargeting commands (specification Spec)             *)
(***************************************************************************)
\* the entries a Retarget uses: enabled, with a target
Usable(m) == m.enabled /\ m.target_bone /= <<>>

\* the step is a run of Retarget
RetargetStep == last'.command = commands'

GroupNames(sc, mesh) ==
  {sc.vertex_groups[mesh][k].name : k \in 1..Len(sc.vertex_groups[mesh])}

BoundTo(sc, armature) ==
  {mesh \in sc.objects \cap Meshes :
     HasArmatureModFor(sc, mesh, armature) \/ sc.parent[mesh] = armature}

\* C1: in every state reached by Build, Set Mapping Target, Toggle All, Clear
\* and Retarget, no two mapping entries hold the same non-empty target_bone.
C1_TargetBonesUnique ==
  \A i, j \in 1..Len(bone_mappings) :
     (i /= j /\ bone_mappings[i].target_bone /= <<>>)
       => bone_mappings[i].target_bone /= bone_mappings[j].target_bone

\* C3: a Retarget run with no entry both enabled and with a target, or with a
\* skeleton reference missing, returns CANCELLED and changes neither the scene
\* (objects, bone geometry, vertex groups, parents, modifiers, collections)
\* nor the mapping entries nor the two skeleton references.
C3_CancelledBeforeMutation ==
  [][(/\ RetargetStep
      /\ \/ \A k \in 1..Len(bone_mappings) : ~Usable(bone_mappings[k])
         \/ source_armature = NoObject
         \/ target_armature = NoObject)
       => /\ last'.status = "CANCELLED"
          /\ scene' = scene
          /\ bone_mappings' = bone_mappings
          /\ source_armature' = source_armature
          /\ target_armature' = target_armature]_vars

\* a Retarget was just cancelled on a built mapping whose entries with a
\* target are all disabled, both skeletons being referenced
C3_Witness ==
  /\ last.command = commands
  /\ last.status = "CANCELLED"
  /\ source_armature /= NoObject /\ target_armature /= NoObject
  /\ \E k \in 1..Len(bone_mappings) : bone_mappings[k].target_bone /= <<>>
  /\ \A k \in 1..Len(bone_mappings) : ~bone_mappings[k].enabled

\* C7: when a Retarget transfers weights, every mesh bound to the target
\* skeleton that had a group named t, for an enabled mapping (s, t), has a
\* group named s afterwards, and has no group named t unless t is the source
\* bone of another enabled mapping.
C7_GroupsRenamed ==
  [][(RetargetStep /\ last'.status = "FINISHED" /\ last'.opt.transfer_weights)
       => \A mesh \in BoundTo(scene, target_armature) :
            \A k \in 1..Len(bone_mappings) :
               (Usable(bone_mappings[k])
                /\ bone_mappings[k].target_bone \in GroupNames(scene, mesh))
                 => /\ bone_mappings[k].ue5_bone \in GroupNames(scene', mesh)
                    /\ bone_mappings[k].target_bone \in GroupNames(scene', mesh)
                         => \E j \in 1..Len(bone_mappings) :
                               /\ j /= k
                               /\ Usable(bone_mappings[j])
                               /\ bone_mappings[j].ue5_bone
                                    = bone_mappings[k].target_bone]_vars

\* C13: in every state reached by Build, Clear, Set Mapping Target, Toggle
\* All and Retarget with any options, the mapping list is empty whenever the
\* source or the target skeleton reference is empty.
C13_NoReferenceNoMappings ==
  (source_armature = NoObject \/ target_armature = NoObject)
    => bone_mappings = <<>>

\* a Retarget has deleted the target skeleton of a built mapping: the
\* target reference is empty, the source reference is not
C13_Witness ==
  /\ last.command = commands
  /\ last.status = "FINISHED"
  /\ last.opt.delete_target_skeleton
  /\ "SK_B" \notin scene.objects
  /\ target_armature = NoObject
  /\ source_armature /= NoObject

\* C14: Set Mapping Target gives the active entry the chosen bone as
\* target_bone with enabled true, confidence 1.0 and category HIGH, and
\* leaves every other entry and both skeleton references unchanged.
C14_ManualOverride ==
  [][\A armature \in Armatures :
       \A b \in 1..Len(BonesOf(armature)) :
          SetMappingTarget(armature, BonesOf(armature)[b])
            => /\ Len(bone_mappings') = Len(bone_mappings)
               /\ \A k \in 1..Len(bone_mappings) :
                    IF k = active_mapping_index + 1
                      THEN /\ bone_mappings'[k].target_bone
                                = BonesOf(armature)[b]
                           /\ bone_mappings'[k].enabled
                           /\ bone_mappings'[k].confidence = Pct(100)
                           /\ bone_mappings'[k].category = "HIGH"
                           /\ bone_mappings'[k].ue5_bone
                                = bone_mappings[k].ue5_bone
                      ELSE bone_mappings'[k] = bone_mappings[k]
               /\ source_armature' = source_armature
               /\ target_armature' = target_armature]_vars

\* the first entry of a built mapping, which had no target and was
\* disabled, carries a manual override and is enabled, while the second
\* entry is still the builder's, disabled by Toggle All
C14_Witness ==
  /\ Len(bone_mappings) = 2
  /\ active_mapping_index = 0
  /\ bone_mappings[1].reason = "manual_override"
  /\ bone_mappings[1].enabled
  /\ bone_mappings[1].target_bone /= <<>>
  /\ bone_mappings[2].reason = "exact_match"
  /\ ~bone_mappings[2].enabled
  /\ source_armature /= NoObject /\ target_armature /= NoObject

\* the step is a run of Retarget that reaches the alignment
AlignStep ==
  /\ RetargetStep
  /\ source_armature /= NoObject /\ target_armature /= NoObject
  /\ \E k \in 1..Len(bone_mappings) : Usable(bone_mappings[k])

\* the source bones named by an entry of the bone map whose source bone is in
\* the source skeleton and whose target bone is in the target skeleton
AlignedBones ==
  LET qualifies(m) == /\ Usable(m)
                      /\ InList(m.ue5_bone, BonesOf(source_armature))
                      /\ InList(m.target_bone, BonesOf(target_armature))
      entries == SelectSeq(bone_mappings, qualifies)
  IN {entries[k].ue5_bone : k \in 1..Len(entries)}

\* the geometry g multiplied by factor (the roll is an angle)
Scaled(g, factor) ==
  [head |-> g.head * factor, tail |-> g.tail * factor, roll |-> g.roll]

C2_BuilderTargetsUnique ==
  /\ [](b_pass = 5 =>
          \A i, j \in 1..Len(b_mappings) :
             (i /= j /\ b_mappings[i].target_bone /= <<>>)
               => b_mappings[i].target_bone /= b_mappings[j].target_bone)
  /\ [][b_locals.used_targets \subseteq b_locals'.used_targets]_vars

\* the builder has returned for two source bones equal up to letter case and
\* so after the same target: one has it, the other is unmapped
C2_Witness ==
  /\ b_pass = 5
  /\ Len(b_mappings) = 2
  /\ Lower(b_ue5_bones[1]) = Lower(b_ue5_bones[2])
  /\ b_mappings[1].target_bone /= <<>>
  /\ Lower(b_mappings[1].target_bone) = Lower(b_ue5_bones[1])
  /\ b_mappings[2].target_bone = <<>>
  /\ b_mappings[1].target_bone \in b_locals.used_targets

\* C5: with the same list of distinct names as source and as target, entry i
\* maps source bone i to itself with confidence 1.0, HIGH, exact_match.
C5_IdenticalListsMapToThemselves ==
  (b_pass = 5 /\ b_ue5_bones = b_target_bones)
    => \A i \in 1..Len(b_ue5_bones) :
          /\ b_mappings[i].ue5_bone = b_ue5_bones[i]
          /\ b_mappings[i].target_bone = b_ue5_bones[i]
          /\ b_mappings[i].confidence = Pct(100)
          /\ b_mappings[i].category = "HIGH"
          /\ b_mappings[i].reason = "exact_match"

Scenario == b_ue5_bones = ScenarioSource /\ b_target_bones = ScenarioTarget

\* C6 as stated: in the scenario all four source bones get a target with
\* category HIGH, confidence at least 0.90 and reason alias_match or
\* normalized_match.
C6_ScenarioAllHigh ==
  (b_pass = 5 /\ Scenario)
    => \A i \in 1..4 :
          /\ b_mappings[i].target_bone /= <<>>
          /\ b_mappings[i].category = "HIGH"
          /\ b_mappings[i].confidence >= Pct(90)
          /\ b_mappings[i].reason \in {"alias_match", "normalized_match"}

\* C6: in the scenario Hips, Spine, Spine1 and LeftArm are mapped to pelvis,
\* spine_01, spine_02 and upperarm_l, all enabled; Hips, Spine and LeftArm
\* are HIGH at 0.90 by alias_match, Spine1 is MEDIUM at 0.775 by fuzzy_high.
C6_ScenarioThreeAliasOneFuzzy ==
  (b_pass = 5 /\ Scenario)
    => /\ \A i \in 1..4 :
             /\ b_mappings[i].ue5_bone = ScenarioSource[i]
             /\ b_mappings[i].target_bone = ScenarioTarget[i]
             /\ b_mappings[i].enabled
       /\ \A i \in {1, 2, 4} :
             /\ b_mappings[i].category = "HIGH"
             /\ b_mappings[i].confidence = Pct(90)
             /\ b_mappings[i].reason = "alias_match"
       /\ b_mappings[3].category = "MEDIUM"
       /\ 2 * b_mappings[3].confidence = Pct(155)
       /\ b_mappings[3].reason = "fuzzy_high"

\* the builder has returned on the scenario's lists
C6_Witness == b_pass = 5 /\ Scenario /\ Len(b_mappings) = 4

\* the source bones pass 4 handles, given the locals st after pass 3
LeftForPass4(st) ==
  LET NotInResults(b) == b \notin DOMAIN st.mapping_results
  IN SelectSeq(b_ue5_bones, NotInResults)

\* the targets claimed when pass 4 reaches its i-th bone: those of passes 1-3
\* and those pass 4 gave to its earlier bones in its result
ClaimedBefore(st, result, i) ==
  st.used_targets
    \cup ({result[LeftForPass4(st)[j]].target_bone : j \in 1..(i - 1)} \ {<<>>})

\* the indexes of the targets still free for the i-th bone of pass 4
FreeFor(st, result, i) ==
  {t \in 1..Len(b_target_bones) :
     b_target_bones[t] \notin ClaimedBefore(st, result, i)}

\* match_confidence of the i-th bone of pass 4 and target t
Score(st, i, t) ==
  compute_match_confidence(LeftForPass4(st)[i], b_target_bones[t])[1]

\* the free targets no free target beats for the i-th bone of pass 4
BestFor(st, result, i) ==
  {t \in FreeFor(st, result, i) :
     \A u \in FreeFor(st, result, i) : Score(st, i, u) <= Score(st, i, t)}

\* C23: pass 4 handles the source bones passes 1-3 left unmapped in source
\* order; each gets the not yet claimed target of highest match_confidence,
\* the earliest in target order among equal scores, if that score is at least
\* 0.3, and the target is then claimed; with a best score below 0.3 the bone
\* gets no target and claims none.  The entries of passes 1-3 stay.
C23_Pass4Greedy ==
  [][(b_pass = 3 /\ b_pass' = 4)
       => LET st == b_locals
              result == b_locals'.mapping_results
              left == LeftForPass4(st)
          IN /\ DOMAIN result = DOMAIN st.mapping_results
                                  \cup {left[i] : i \in 1..Len(left)}
             /\ \A b \in DOMAIN st.mapping_results :
                  result[b] = st.mapping_results[b]
             /\ \A i \in 1..Len(left) :
                  LET best == BestFor(st, result, i)
                      first == CHOOSE t \in best : \A u \in best : t <= u
                  IN IF best /= {} /\ Score(st, i, first) >= Pct(30)
                       THEN /\ result[left[i]].target_bone
                                 = b_target_bones[first]
                            /\ result[left[i]].confidence
                                 = Score(st, i, first)
                            /\ b_target_bones[first]
                                 \in b_locals'.used_targets
                       ELSE result[left[i]].target_bone = <<>>
             /\ b_locals'.used_targets
                  = ClaimedBefore(st, result, Len(left) + 1)]_vars

\* pass 4 has handled two source bones whose best target was the same: the
\* first has it, the second has the target that was left
C23_Witness ==
  /\ b_pass = 4
  /\ Len(b_ue5_bones) = 2 /\ Len(b_target_bones) = 2
  /\ \A i \in 1..2 :
        /\ b_locals.mapping_results[b_ue5_bones[i]].reason
             \in {"fuzzy_high", "fuzzy_medium", "fuzzy_low"}
        /\ b_locals.mapping_results[b_ue5_bones[i]].target_bone /= <<>>
  /\ \E t \in 1..2 :
        /\ b_locals.mapping_results[b_ue5_bones[1]].target_bone
             = b_target_bones[t]
        /\ compute_match_confidence(b_ue5_bones[2], b_target_bones[t])[1]
             > b_locals.mapping_results[b_ue5_bones[2]].confidence

(***************************************************************************)
(* Properties of compute_match_confidence (specification SpecConfidence)   *)
(***************************************************************************)
\* C4: when get_side_from_name puts one name on the left and the other on the
\* right, compute_match_confidence returns exactly (0.0, side_mismatch).
C4_OppositeSidesNeverMatch ==
  (/\ c_result /= <<>>
   /\ {get_side_from_name(c_ue5_bone), get_side_from_name(c_target_bone)}
        = {"left", "right"})
    => c_result = <<0, "side_mismatch">>

\* C12: every entry of the returned list has category HIGH exactly when its
\* confidence is at least 0.85, MEDIUM exactly from 0.5 up to 0.85, LOW
\* exactly from 0.3 up to 0.5 and NONE exactly below 0.3; its target_bone
\* is empty exactly when the category is NONE, and it is enabled exactly
\* when the confidence is at least 0.5.
C12_CategoryMatchesConfidence ==
  b_pass = 5 =>
    \A i \in 1..Len(b_mappings) :
       LET e == b_mappings[i]
       IN /\ e.category \in {"HIGH", "MEDIUM", "LOW", "NONE"}
          /\ e.category = "HIGH" <=> e.confidence >= Pct(85)
          /\ e.category = "MEDIUM"
               <=> (e.confidence >= Pct(50) /\ e.confidence < Pct(85))
          /\ e.category = "LOW"
               <=> (e.confidence >= Pct(30) /\ e.confidence < Pct(50))
          /\ e.category = "NONE" <=> e.confidence < Pct(30)
          /\ e.target_bone = <<>> <=> e.category = "NONE"
          /\ e.enabled <=> e.confidence >= Pct(50)

\* a returned list with an entry of pass 4 whose best candidate scored
\* above 0 and below 0.3 and was discarded, next to a LOW or MEDIUM entry
C12_Witness ==
  /\ b_pass = 5
  /\ \E i \in 1..Len(b_mappings) :
       /\ b_mappings[i].category = "NONE"
       /\ b_mappings[i].confidence > 0
       /\ b_mappings[i].target_bone = <<>>
  /\ \E i \in 1..Len(b_mappings) :
       /\ b_mappings[i].category \in {"LOW", "MEDIUM"}
       /\ b_mappings[i].reason /= "no_match"

\* the similarity of the fuzzy step before the finger adjustment
BoostedSimilarity(ue5_bone, target_bone) ==
  LET ue5_norm    == normalize_bone_name(ue5_bone)
      target_norm == normalize_bone_name(target_bone)
      max_len     == Max2(Len(ue5_norm), Len(target_norm))
      distance    == levenshtein_distance(ue5_norm, target_norm)
  IN KeyPartBoost(Scale - (distance * Scale) \div max_len, ue5_norm,
                  target_norm)

\* the fingers the name references
FingersOf(name) ==
  {k \in 1..Len(FINGER_PATTERNS) : HasFinger(normalize_bone_name(name), k)}

\* the finger adjustment as stated: +0.2 for a shared finger, -0.3 when
\* exactly one name references a finger, 0 otherwise
StatedFingerAdjustment(ue5_bone, target_bone) ==
  IF FingersOf(ue5_bone) \cap FingersOf(target_bone) /= {} THEN Pct(20)
  ELSE IF (FingersOf(ue5_bone) = {}) /= (FingersOf(target_bone) = {})
    THEN 0 - Pct(30)
  ELSE 0

\* C24: in the fuzzy step the score is the similarity plus exactly one of
\* +0.2 (both names reference the same finger), -0.3 (exactly one name
\* references a finger) or 0, clamped to [0,1]; the reason is fuzzy_high from
\* 0.7, fuzzy_medium from 0.5 up to 0.7, fuzzy_low below.
C24_FingerAdjustmentOnce ==
  (/\ c_result /= <<>>
   /\ c_result[2] \in {"fuzzy_high", "fuzzy_medium", "fuzzy_low"})
    => /\ c_result[1]
            = Max2(0, Min2(Scale,
                           BoostedSimilarity(c_ue5_bone, c_target_bone)
                             + StatedFingerAdjustment(c_ue5_bone,
                                                      c_target_bone)))
       /\ c_result[2] = "fuzzy_high" <=> c_result[1] >= Pct(70)
       /\ c_result[2] = "fuzzy_medium"
            <=> (c_result[1] >= Pct(50) /\ c_result[1] < Pct(70))

\* the alias entries the name resolves to: its normalized form is the
\* canonical name or one of the aliases
ResolvesTo(name) ==
  {k \in 1..Len(UE5_BONE_ALIASES) :
     \/ normalize_bone_name(name) = UE5_BONE_ALIASES[k].canonical
     \/ InList(normalize_bone_name(name), UE5_BONE_ALIASES[k].aliases)}

\* C25: for names whose normalized forms differ, match_confidence(a, b) is
\* (0.95, alias_match) exactly when match_confidence(b, a) is, namely exactly
\* when both names resolve to the same entry of the alias table.
C25_AliasRuleSymmetric ==
  (/\ c_result /= <<>>
   /\ normalize_bone_name(c_ue5_bone) /= normalize_bone_name(c_target_bone))
    => /\ c_result = <<Pct(95), "alias_match">>
            <=> compute_match_confidence(c_target_bone, c_ue5_bone)
                  = <<Pct(95), "alias_match">>
       /\ c_result = <<Pct(95), "alias_match">>
            <=> ResolvesTo(c_ue5_bone) \cap ResolvesTo(c_target_bone) /= {}

(***************************************************************************)
(* Properties of the weight merge (specification SpecMerge)                *)
(***************************************************************************)
\* the weights Hand_R (id 1) and hand_r (id 2) started with
InitialW(id) == m_initial[id].w

InBoth(v) == v \in DOMAIN InitialW(1) /\ v \in DOMAIN InitialW(2)

\* C8: when Hand_R is transferred onto a mesh that has hand_r, the group
\* hand_r then holds, for every vertex, the mean of the two weights where
\* both groups had the vertex, the one weight where one had it and nothing
\* where neither had it; the group Hand_R is gone.
C8_MergeBranchAverages ==
  m_op = "branch"
    => /\ Len(m_groups) = 1
       /\ m_groups[1].id = 2
       /\ m_groups[1].name = nm_hand_r
       /\ \A v \in MergeVerts :
             /\ InBoth(v)
                  => /\ v \in DOMAIN m_groups[1].w
                     /\ 2 * m_groups[1].w[v] = InitialW(1)[v] + InitialW(2)[v]
             /\ (v \in DOMAIN InitialW(1) /\ v \notin DOMAIN InitialW(2))
                  => /\ v \in DOMAIN m_groups[1].w
                     /\ m_groups[1].w[v] = InitialW(1)[v]
             /\ (v \notin DOMAIN InitialW(1) /\ v \in DOMAIN InitialW(2))
                  => /\ v \in DOMAIN m_groups[1].w
                     /\ m_groups[1].w[v] = InitialW(2)[v]
             /\ (v \notin DOMAIN InitialW(1) /\ v \notin DOMAIN InitialW(2))
                  => v \notin DOMAIN m_groups[1].w

\* the merge branch ran on groups with a vertex in both (at weights that
\* differ), a vertex in one only and a vertex in neither
C8_Witness ==
  /\ m_op = "branch"
  /\ \E v \in MergeVerts : InBoth(v) /\ InitialW(1)[v] /= InitialW(2)[v]
  /\ \E v \in MergeVerts :
        v \in DOMAIN InitialW(1) /\ v \notin DOMAIN InitialW(2)
  /\ \E v \in MergeVerts :
        v \notin DOMAIN InitialW(1) /\ v \notin DOMAIN InitialW(2)

\* the weight of v in the group merged into
MergedWeight(v) == m_groups[GroupById(m_groups, m_dir[2])].w[v]

\* C9 as stated: for a vertex in both groups the merged weight is the same
\* whichever group is merged into the other, 0.6 and 0.4 give 0.5, and
\* applying the same merge again leaves the weight as it is.
C9_MergeCommutativeIdempotent ==
  m_op = "merge"
    => \A v \in MergeVerts :
          InBoth(v)
            => /\ m_applied = 1
                    => /\ MergedWeight(v)
                            = merge_vertex_groups(InitialW(m_dir[2]),
                                                  InitialW(m_dir[1]))[v]
                       /\ {InitialW(1)[v], InitialW(2)[v]} = {24, 16}
                            => MergedWeight(v) = 20
               /\ m_applied = 2
                    => 2 * MergedWeight(v) = InitialW(1)[v] + InitialW(2)[v]

\* C9: for a vertex in both groups one merge gives the same weight whichever
\* group is merged into the other (0.6 and 0.4 give 0.5); the same merge
\* applied again gives the mean of the source weight and the merged weight,
\* which is the merged weight only when the two weights were equal.
C9_MergeCommutativeOnce ==
  m_op = "merge"
    => \A v \in MergeVerts :
          InBoth(v)
            => /\ m_applied = 1
                    => /\ MergedWeight(v)
                            = merge_vertex_groups(InitialW(m_dir[2]),
                                                  InitialW(m_dir[1]))[v]
                       /\ 2 * MergedWeight(v) = InitialW(1)[v] + InitialW(2)[v]
                       /\ {InitialW(1)[v], InitialW(2)[v]} = {24, 16}
                            => MergedWeight(v) = 20
               /\ m_applied = 2
                    => /\ 4 * MergedWeight(v)
                            = 3 * InitialW(m_dir[1])[v] + InitialW(m_dir[2])[v]
                       /\ (2 * MergedWeight(v) = InitialW(1)[v] + InitialW(2)[v])
                            <=> (InitialW(1)[v] = InitialW(2)[v])

\* 0.6 was merged twice into 0.4
C9_Witness ==
  /\ m_op = "merge"
  /\ m_applied = 2
  /\ \E v \in MergeVerts :
        /\ InBoth(v)
        /\ InitialW(m_dir[1])[v] = 24
        /\ InitialW(m_dir[2])[v] = 16
        /\ MergedWeight(v) = 22

(***************************************************************************)
(* Properties of the shape key transfer (specification SpecShape)          *)
(***************************************************************************)
Key(obj, name) == obj.key_blocks[KeyIndex(obj.key_blocks, name)]

\* the delta of every transferred key equals the source's, at every vertex
DeltasCopied ==
  \A k \in 1..Len(s_transferred) :
     \A i \in 1..Len(s_target.vertices) :
        Key(s_target, s_transferred[k]).data[i] - s_target.key_blocks[1].data[i]
          = Key(s_source, s_transferred[k]).data[i]
            - s_source.key_blocks[1].data[i]

\* world distance between vertex i of the source and of the target
WorldDistance(i) ==
  Abs((s_source.matrix_world + s_source.vertices[i])
      - (s_target.matrix_world + s_target.vertices[i]))

\* C10 as stated: with equal vertex count and identical rest positions, the
\* delta of every transferred key equals the source delta at every vertex,
\* for every distance threshold and falloff.
C10_TopologyTransferIsIdentity ==
  (s_status = "FINISHED" /\ s_source.vertices = s_target.vertices)
    => DeltasCopied

\* C10: with equal vertex count and identical rest positions, the delta of
\* every transferred key equals the source delta at every vertex when the
\* threshold is 0 or no vertex is further than the threshold, in world space,
\* from its source vertex.
C10_TopologyTransferIsIdentityInRange ==
  (/\ s_status = "FINISHED"
   /\ s_source.vertices = s_target.vertices
   /\ \/ s_opt.distance_threshold = 0
      \/ \A i \in 1..Len(s_target.vertices) :
            WorldDistance(i) <= s_opt.distance_threshold)
    => DeltasCopied

\* a key that moves a vertex was transferred between meshes with the same
\* rest positions, one unit apart in the world, under a threshold and a
\* falloff above 0
C10_Witness ==
  /\ s_status = "FINISHED"
  /\ s_source.vertices = s_target.vertices
  /\ s_opt.distance_threshold > 0
  /\ s_opt.interpolation_falloff > 0
  /\ \A i \in 1..Len(s_target.vertices) :
        WorldDistance(i) > 0 /\ WorldDistance(i) <= s_opt.distance_threshold
  /\ \E k \in 1..Len(s_transferred) :
        \E i \in 1..Len(s_target.vertices) :
           Key(s_source, s_transferred[k]).data[i]
             /= s_source.key_blocks[1].data[i]

(***************************************************************************)
(* Claims about the closest-point weights.                                 *)
(***************************************************************************)
Cross(a, b) ==
  <<a[2] * b[3] - a[3] * b[2], a[3] * b[1] - a[1] * b[3],
    a[1] * b[2] - a[2] * b[1]>>

\* the face has no area: its edge vectors are parallel or null
ZeroArea(face) ==
  Cross(VSub(face[2], face[1]), VSub(face[3], face[1])) = <<0, 0, 0>>

WeightsInRange(ws) ==
  /\ ws.den > 0
  /\ \A i \in DOMAIN ws.nums : ws.nums[i] >= 0
  /\ SumSeq(ws.nums) <= ws.den

\* C11: the barycentric weights of a closest-point entry are each at least
\* 0 and sum to at most 1, before and after the scaling by the distance
\* decay factor, and a face without area gets exactly 1/3, 1/3, 1/3.
C11_BarycentricWeightsInRange ==
  q_weights /= <<>> =>
    /\ WeightsInRange(q_weights.bary)
    /\ WeightsInRange(q_weights.final)
    /\ ZeroArea(q_face) =>
         \A i \in 1..3 : 3 * q_weights.bary.nums[i] = q_weights.bary.den

\* a location outside a proper triangle, farther than the threshold, with
\* a decay factor strictly between 0 and 1
C11_Witness ==
  /\ q_weights /= <<>>
  /\ ~ZeroArea(q_face)
  /\ \E i \in 1..3 : q_weights.bary.nums[i] = 0
  /\ \E i \in 1..3 :
       /\ q_weights.final.nums[i] > 0
       /\ q_weights.final.nums[i] * q_weights.bary.den
            < q_weights.bary.nums[i] * q_weights.final.den

(***************************************************************************)
(* Claims about Import and Export                                          *)
(***************************************************************************)
\* C15: when the bridge directory is unset or still the default path, an
\* Import or Export command returns CANCELLED and changes nothing: objects,
\* collections, custom properties, selection, unit settings and the files
\* on disk are as before.
C15_UnconfiguredBridgeMutatesNothing ==
  [][(~is_bridge_configured(x_prefs) /\ x_commands' = x_commands + 1)
       => /\ x_last'.returned = "CANCELLED"
          /\ x_scene' = x_scene
          /\ x_disk' = x_disk]_vars

(***************************************************************************)
(* Properties of the export roots (SpecRoots)                              *)
(***************************************************************************)
\* o is below a in the hierarchy of sc
Below(sc, o, a) == o \in Descendants(sc, a)

\* the step is an Export that computed its export roots
RootsStep ==
  /\ x_commands' = x_commands + 1
  /\ x_last'.op = "Export"
  /\ ReachesExportRoots(x_scene, x_prefs)

\* C30: whatever the selection, the hierarchy and the order in which the
\* selection is iterated, no export root of Export is a descendant of another
\* export root, and every selected object is an export root or below exactly
\* one.
C30_ExportRootsDisjoint ==
  [][RootsStep
       => LET roots == {x_last'.export_roots[k] :
                          k \in 1..Len(x_last'.export_roots)}
          IN /\ \A o, a \in roots : ~Below(x_scene, o, a)
             /\ \A o \in x_scene.selected :
                  Cardinality({a \in roots :
                                 o = a \/ Below(x_scene, o, a)}) = 1]_vars

(***************************************************************************)
(* Properties of Retarget's hierarchy and cleanup steps (SpecRebind)       *)
(***************************************************************************)
\* the meshes a step removes from the scene
DeletedMeshes == (scene.objects \ scene'.objects) \cap Meshes

\* C16: the source-mesh cleanup of Retarget deletes only meshes that before
\* the operation were bound to the source skeleton and to it only: no mesh
\* bound to the target skeleton before the operation is deleted, and nothing
\* is deleted when the cleanup option is off.
C16_CleanupDeletesSourceOnlyMeshes ==
  [][RetargetStep =>
       /\ DeletedMeshes \subseteq
            BoundTo(scene, source_armature) \ BoundTo(scene, target_armature)
       /\ ~last'.opt.delete_ue5_source_mesh => DeletedMeshes = {}]_vars

\* transferred_meshes of a Retarget run from the current state: the meshes
\* bound to the target skeleton with a vertex group renamed or merged
TransferredMeshes(opt) ==
  IF opt.transfer_weights
    THEN {mesh \in BoundTo(scene, target_armature) :
            GroupsToRename(scene.vertex_groups[mesh], BoneMap(bone_mappings))
              /= <<>>}
    ELSE {}

\* the armature modifiers of a mesh, by position
ArmatureMods(sc, mesh) ==
  {k \in 1..Len(sc.modifiers[mesh]) : sc.modifiers[mesh][k].type = "ARMATURE"}

\* C17: after a finished Retarget every transferred mesh has the source
\* skeleton as its parent and carries exactly one armature modifier, which
\* references the source skeleton, whatever number of armature modifiers the
\* mesh had before.
C17_OneModifierOnSource ==
  [][(RetargetStep /\ last'.status = "FINISHED") =>
       \A mesh \in TransferredMeshes(last'.opt) :
          /\ scene'.parent[mesh] = source_armature
          /\ Cardinality(ArmatureMods(scene', mesh)) = 1
          /\ \A k \in ArmatureMods(scene', mesh) :
                scene'.modifiers[mesh][k].object = source_armature]_vars

\* C18: after a finished Retarget the source skeleton has the parent the
\* target skeleton had before the operation (none when the target had none,
\* whatever parent the source had) and is in exactly the collections the
\* target skeleton was in.
C18_SourceTakesTargetPlace ==
  [][(RetargetStep /\ last'.status = "FINISHED") =>
       /\ scene'.parent[source_armature] = scene.parent[target_armature]
       /\ scene'.users_collection[source_armature]
            = scene.users_collection[target_armature]]_vars

\* the objects a step gives another parent
Reparented ==
  {o \in scene'.objects :
     scene'.parent[o] /= scene.parent[o] /\ scene'.parent[o] /= NoObject}

\* C19: every reparenting done by Retarget (a mesh moved from the target to
\* the source skeleton, a transferred mesh parented to the source skeleton,
\* the source skeleton moved under the target's parent) leaves the object's
\* world-space transform as it was, for every prior local transform and
\* parent-relative offset.
C19_ReparentKeepsWorldTransform ==
  [][RetargetStep =>
       \A o \in Reparented :
          matrix_world(scene', o) = matrix_world(scene, o)]_vars

\* the objects of the scene that refer to o as their parent or through an
\* armature modifier
ReferringTo(sc, o) ==
  {x \in sc.objects :
     \/ sc.parent[x] = o
     \/ \E k \in 1..Len(sc.modifiers[x]) :
           /\ sc.modifiers[x][k].type = "ARMATURE"
           /\ sc.modifiers[x][k].object = o}

\* C27: after a finished Retarget that deleted the target skeleton no object
\* of the scene refers to the deleted skeleton as its parent or through an
\* armature modifier, whatever the options.
C27_NoReferenceToDeletedTarget ==
  [][(/\ last'.command = commands'
      /\ last'.status = "FINISHED"
      /\ target_armature \in scene.objects
      /\ target_armature \notin scene'.objects)
       => /\ last'.opt.delete_target_skeleton
          /\ ReferringTo(scene', target_armature) = {}
          /\ target_armature' = NoObject]_vars

\* a Retarget without weight transfer has deleted the target skeleton, to
\* which a mesh was still bound: the mesh's modifier refers to no object
C27_Witness ==
  /\ last.status = "FINISHED"
  /\ last.opt.delete_target_skeleton
  /\ ~last.opt.transfer_weights
  /\ target_armature = NoObject
  /\ \E a \in Armatures : a \notin scene.objects
  /\ \E k \in 1..Len(scene.modifiers["M1"]) :
        scene.modifiers["M1"][k].object = NoObject

(***************************************************************************)
(* Properties of the shape-key transfers (SpecShape)                       *)
(***************************************************************************)
\* the target's keys when the loop over the source keys starts
KeysBefore ==
  IF s_target.key_blocks = <<>>
    THEN <<NewKey(s_target, "Basis")>> ELSE s_target.key_blocks

\* the source keys after the first whose name is in considered
ConsideredKeys(considered) ==
  {k \in 2..Len(s_source.key_blocks) :
     s_source.key_blocks[k].name \in considered}

\* what a transfer step does for the source keys considered
KeyEffects(considered) ==
  LET survivors ==
        {i \in 1..Len(KeysBefore) :
           \A k \in ConsideredKeys(considered) :
              s_source.key_blocks[k].name /= KeysBefore[i].name}
      mapping ==
        build_topology_mapping(s_source,
                               [s_target EXCEPT !.key_blocks = KeysBefore],
                               s_opt)
  IN \A k \in ConsideredKeys(considered) :
       LET shape_key == s_source.key_blocks[k]
           existing  == KeyIndex(KeysBefore, shape_key.name)
           named     == {i \in 1..Len(s_target'.key_blocks) :
                           s_target'.key_blocks[i].name = shape_key.name}
       IN /\ (existing /= 0 /\ ~s_opt.overwrite_existing)
               => /\ s_target'.key_blocks[existing] = KeysBefore[existing]
                  /\ named = {existing}
                  /\ ~InList(shape_key.name, s_transferred')
          /\ (existing /= 0 /\ s_opt.overwrite_existing)
               => /\ Cardinality(named) = 1
                  /\ \A i \in named :
                       /\ i > Cardinality(survivors)
                       /\ s_target'.key_blocks[i].data
                            = apply_shape_key_deltas(
                                s_source.key_blocks[1], shape_key,
                                s_target.vertices, KeysBefore[1], mapping)
                  /\ InList(shape_key.name, s_transferred')
          /\ existing = 0
               => /\ Cardinality(named) = 1
                  /\ InList(shape_key.name, s_transferred')

\* C20: for each source key a shape-key transfer considers: a key of that
\* name on the target is left unchanged and not counted when overwrite is
\* off; with overwrite on it is deleted and a new key of that name is created
\* from the source; a key whose name is absent on the target is created.
C20_OverwriteSemantics ==
  [][/\ TransferShapeKeys => KeyEffects({"Smile", "Frown"})
     /\ \A selected_keys \in SUBSET {"Smile", "Frown"} :
          SelectiveTransferShapeKeys(selected_keys)
            => KeyEffects(selected_keys)]_vars

\* Smile was on the target and is passed over, Frown is created
C20_Witness ==
  /\ ~s_opt.overwrite_existing
  /\ s_transferred = <<"Frown">>
  /\ KeyIndex(s_target.key_blocks, "Smile") = 2
  /\ KeyIndex(s_target.key_blocks, "Frown") = 3
  /\ Len(s_source.key_blocks) = 3

\* the step is a shape-key transfer, full or selective
TransferStep == s_status = "none" /\ s_status' /= "none"

\* C29: a shape-key transfer, full or selective, with overwrite on or off,
\* leaves the first (Basis) key of a target that has shape keys in place with
\* its name and vertex positions, whatever the names of the source keys.
C29_BasisKeyUntouched ==
  [][(TransferStep /\ s_target.key_blocks /= <<>>)
       => /\ s_target'.key_blocks /= <<>>
          /\ s_target'.key_blocks[1] = s_target.key_blocks[1]
          /\ s_target'.vertices = s_target.vertices]_vars

(***************************************************************************)
(* Properties of the order of Retarget's steps (SpecSteps)                 *)
(***************************************************************************)
\* the invocation, run step by step, ends where RetargetExecute ends
StepsAgree ==
  (r_run.pc = "idle" /\ r_run.start /= <<>>)
    => LET whole == RetargetExecute(r_run.start[1], r_run.start[2], r_run.opt)
       IN /\ scene = whole.scene
          /\ last.status = whole.status
          /\ bone_mappings = whole.settings.bone_mappings
          /\ target_armature
               = Pointer(whole.scene, whole.settings.target_armature)

\* s lists some of the steps 1..5, each at most once, in the order of execute
InStepOrder(s) ==
  LET order == <<"align", "transfer", "hierarchy", "cleanup", "delete">>
      At(x) == CHOOSE k \in 1..Len(order) : order[k] = x
  IN /\ \A i \in 1..Len(s) : \E k \in 1..Len(order) : order[k] = s[i]
     /\ \A i, j \in 1..Len(s) : i < j => At(s[i]) < At(s[j])

\* the steps that ran so far in the invocation
StepsDone == {r_run.done[i] : i \in 1..Len(r_run.done)}

\* C21: within one Retarget invocation the steps run in the order alignment,
\* weight transfer, hierarchy reconciliation, source-mesh cleanup, deletion of
\* the target skeleton; the target skeleton leaves the scene only after
\* alignment, the weight transfer (when requested) and the hierarchy step have
\* run; and when the invocation ends the mapping set and the target reference
\* are cleared if the target skeleton was deleted in it and are the ones the
\* invocation started with otherwise.
C21_StepsInOrderAndCleared ==
  /\ [](InStepOrder(r_run.done))
  /\ [][(r_run.target \in scene.objects /\ r_run.target \notin scene'.objects)
          => /\ {"align", "hierarchy"} \subseteq StepsDone
             /\ r_run.opt.transfer_weights => "transfer" \in StepsDone
             /\ r_run'.deleted_target]_vars
  /\ [][(r_run.pc /= "idle" /\ r_run'.pc = "idle")
          => /\ r_run'.deleted_target <=> r_run.target \notin scene'.objects
             /\ IF r_run'.deleted_target
                  THEN /\ target_armature' = NoObject
                       /\ bone_mappings' = <<>>
                       /\ last'.status = "FINISHED"
                  ELSE /\ target_armature' = r_run.start[2].target_armature
                       /\ bone_mappings' = r_run.start[2].bone_mappings
                       /\ bone_mappings' /= <<>>]_vars

\* an invocation ran all five steps and deleted the target skeleton
C21_Witness ==
  /\ r_run.pc = "idle"
  /\ r_run.done = <<"align", "transfer", "hierarchy", "cleanup", "delete">>
  /\ r_run.deleted_target
  /\ last.status = "FINISHED"
  /\ target_armature = NoObject
  /\ bone_mappings = <<>>

\* C28: every Retarget invocation that returns CANCELLED, the one cancelled
\* because no bone was aligned included, leaves the scene (bone geometry, the
\* source object's scale, vertex groups, parents, modifiers, the object set),
\* the mapping set and both skeleton references as they were before it.
C28_CancelledChangesNothing ==
  [][(last' /= last /\ last'.status = "CANCELLED")
       => LET before == IF r_run.pc = "idle" THEN <<scene, Settings>>
                        ELSE r_run.start
          IN /\ scene' = before[1]
             /\ bone_mappings' = before[2].bone_mappings
             /\ source_armature' = before[2].source_armature
             /\ target_armature' = before[2].target_armature]_vars

(***************************************************************************)
(* Properties of Retarget on arbitrary hierarchies (SpecHierarchy)         *)
(***************************************************************************)
\* the parent the target skeleton had when the invocation started
TargetParentAtStart == r_run.start[1].parent[r_run.target]

====
